---- MODULE Spec2Model ----
(***************************************************************************)
(* A state-machine model of the podbot backend: the generation pipeline    *)
(* (podcast_pipeline.py), the persistence helpers (crud.py), the content   *)
(* aggregator (content_processor.py, google_services.py), the script and   *)
(* audio services (podcast_generator.py), the feed publisher               *)
(* (rss_generator.py) and the RSS endpoints of main.py.                    *)
(*                                                                         *)
(* Python values are modelled as follows.                                  *)
(*   None / optional text  : <<>> is None, <<s>> is the string s           *)
(*   a str used as a URL   : a tuple; <<>> is the empty string ""          *)
(*   datetime vs. str      : <<"dt", n>> is a datetime object at second n, *)
(*                           <<"str", n>> is its isoformat() text          *)
(*   row ids               : positive integers, 0 is None                  *)
(*   a raised exception    : a record with raised |-> TRUE                 *)
(***************************************************************************)
EXTENDS Integers, Sequences, FiniteSets, TLC

\* ------------------------------------------------------------------ bounds
\* Top-level requests (direct pipeline calls, sweeps, HTTP requests) per run.
MaxRequests == 2

\* ------------------------------------------------------- program constants
\* podcast_pipeline.py: get_user_episodes(db, user_id, limit=50)
FeedLimit == 50
\* content_processor.py: all_documents[:5]
TopDocuments == 5
\* google_services.py: gap > 30 minutes is a free block (in seconds)
FreeBlockGap == 1800
\* google_services.py: gap <= 15 minutes is back-to-back (in seconds)
BackToBackGap == 900
\* google_services.py: total_events >= 8 is heavy
HeavyEvents == 8
\* google_services.py: total_events >= 4 is moderate
ModerateEvents == 4
\* content_processor.py: duration > 2 hours is a long meeting (in seconds)
LongMeeting == 7200
\* _process_individual_documents: the preview keeps 500 characters of the
\* text and appends '...'; the placeholder text around the name has 35
\* characters, and every document name drawn here has four.
PreviewLimit == 500
EllipsisChars == 3
PlaceholderChars == 35
NameChars == 4
\* podcast_generator.py: ~150 words per minute
WordsPerMinute == 150

\* ------------------------------------------------------------ Python values
None == <<>>
Some(s) == <<s>>
\* Python truthiness of an optional string: None and "" are falsy.
Truthy(opt) == opt # None /\ opt # Some("")

Dt(n) == <<"dt", n>>
IsDatetime(v) == v[1] = "dt"
\* datetime.isoformat(): a str carrying the same instant
Isoformat(v) == <<"str", v[2]>>
\* a - b: defined on two datetime objects, TypeError on two str
Minus(a, b) ==
  IF IsDatetime(a) /\ IsDatetime(b)
    THEN [raised |-> FALSE, seconds |-> a[2] - b[2]]
    ELSE [raised |-> TRUE, seconds |-> 0]

Min(a, b) == IF a <= b THEN a ELSE b

\* The first n elements of s (Python s[:n]).
Take(s, n) == SubSeq(s, 1, Min(n, Len(s)))

\* Messages an exception may carry (str(e)); the empty text is one of them.
Messages == {"", "error"}
\* The text of the TypeError the interpreter raises.
TypeErrorText == "TypeError"

VARIABLES
  users,      \* table users: sequence of rows, row i has id i
  episodes,   \* table podcast_episodes
  logs,       \* table generation_logs
  now,        \* the wall clock, in request ticks
  pc,         \* position of the pipeline call being executed
  cur,        \* the frame of the pipeline call being executed
  sweep,      \* the frame of generate_daily_podcasts_for_all_users
  resp,       \* the last HTTP response or feed produced
  nreq,       \* top-level requests started so far
  sessions,   \* the database sessions that are open
  audio_files \* the audio files on disk

vars == <<users, episodes, logs, now, pc, cur, sweep, resp, nreq, sessions,
          audio_files>>

\* ------------------------------------------------- google_services.py (pure)
\* _get_all_calendars: only selected and not hidden calendars are kept.
VisibleCalendars(items) ==
  SelectSeq(items, LAMBDA c : c.selected /\ ~c.hidden)

\* The fallback of _get_all_calendars when the calendar list call fails.
PrimaryOnly == << [id |-> "primary", selected |-> TRUE, hidden |-> FALSE] >>

\* _process_event: None (<<>>) for an event without a start, else <<event>>.
\* A raw time is [kind |-> "dateTime", v |-> second], [kind |-> "date",
\* v |-> day] or [kind |-> "none", v |-> 0].
ProcessEvent(raw, cal) ==
  IF raw.start.kind = "none" THEN <<>>
  ELSE
    LET is_all_day == raw.start.kind = "date"
        start_dt == IF is_all_day THEN Dt(raw.start.v * 86400) ELSE Dt(raw.start.v)
        end_dt == CASE raw.end.kind = "dateTime" -> Dt(raw.end.v)
                    [] raw.end.kind = "date" -> Dt(raw.end.v * 86400 + 86399)
                    [] OTHER -> Dt(start_dt[2] + 3600)
    IN << [id |-> raw.id, title |-> raw.id, start_time |-> start_dt,
           end_time |-> end_dt, is_all_day |-> is_all_day,
           attachments |-> raw.attachments, calendar |-> cal.id] >>

RECURSIVE ProcessEvents(_, _)
ProcessEvents(raws, cal) ==
  IF raws = <<>> THEN <<>>
  ELSE ProcessEvent(Head(raws), cal) \o ProcessEvents(Tail(raws), cal)

\* list.sort / sorted by start_time: stable, ascending.
RECURSIVE InsertByStart(_, _)
InsertByStart(e, s) ==
  IF s = <<>> THEN <<e>>
  ELSE IF Head(s).start_time[2] <= e.start_time[2]
    THEN <<Head(s)>> \o InsertByStart(e, Tail(s))
    ELSE <<e>> \o s

RECURSIVE SortByStart(_)
SortByStart(s) ==
  IF s = <<>> THEN <<>>
  ELSE InsertByStart(s[Len(s)], SortByStart(SubSeq(s, 1, Len(s) - 1)))

Duration(e) == e.end_time[2] - e.start_time[2]

\* A faulty variant of the sum below: all-day events are counted too.
RECURSIVE BusySecondsAllDay(_)
BusySecondsAllDay(ev) ==
  IF ev = <<>> THEN 0
  ELSE Duration(Head(ev)) + BusySecondsAllDay(Tail(ev))

RECURSIVE BusySeconds(_)
BusySeconds(ev) ==
  IF ev = <<>> THEN 0
  ELSE (IF Head(ev).is_all_day THEN 0 ELSE Duration(Head(ev))) + BusySeconds(Tail(ev))

\* Gap in seconds between event i and event i+1 of a sorted list.
Gap(ev, i) == ev[i + 1].start_time[2] - ev[i].end_time[2]

\* A faulty variant of the walk below: a gap of exactly 30 minutes is
\* recorded as a free block.
RECURSIVE FreeBlocksFromInclusive(_, _)
FreeBlocksFromInclusive(ev, i) ==
  IF i >= Len(ev) THEN <<>>
  ELSE (IF Gap(ev, i) >= FreeBlockGap
          THEN << [start |-> Isoformat(ev[i].end_time),
                   end |-> Isoformat(ev[i + 1].start_time),
                   duration_seconds |-> Gap(ev, i)] >>
          ELSE <<>>) \o FreeBlocksFromInclusive(ev, i + 1)

RECURSIVE FreeBlocksFrom(_, _)
FreeBlocksFrom(ev, i) ==
  IF i >= Len(ev) THEN <<>>
  ELSE (IF Gap(ev, i) > FreeBlockGap
          THEN << [start |-> Isoformat(ev[i].end_time),
                   end |-> Isoformat(ev[i + 1].start_time),
                   duration_seconds |-> Gap(ev, i)] >>
          ELSE <<>>) \o FreeBlocksFrom(ev, i + 1)

BackToBack(ev) ==
  Cardinality({i \in 1..(Len(ev) - 1) : Gap(ev, i) <= BackToBackGap})

\* max(events, key=duration): the first event of maximal duration.
LongestEvent(ev) ==
  ev[CHOOSE i \in 1..Len(ev) :
       /\ \A j \in 1..Len(ev) : Duration(ev[j]) <= Duration(ev[i])
       /\ \A j \in 1..(i - 1) : Duration(ev[j]) < Duration(ev[i])]

\* round(busy_hours, 1), in tenths of an hour. The hours are summed as
\* floats, so a sum that is exactly half a tenth (180 s modulo 360 s) is
\* rounded down or up as the float happens to fall: `half` is 0 or 1.
HalfTies == {0, 1}
RoundTenths(seconds, half) ==
  LET q == seconds \div 360
      r == seconds % 360
  IN IF r < 180 THEN q ELSE IF r > 180 THEN q + 1 ELSE q + half

\* A faulty variant of the classification below: the thresholds are
\* exclusive.
DensityExclusive(n) ==
  IF n > HeavyEvents THEN "heavy"
  ELSE IF n > ModerateEvents THEN "moderate" ELSE "light"

Density(n) ==
  IF n >= HeavyEvents THEN "heavy"
  ELSE IF n >= ModerateEvents THEN "moderate" ELSE "light"

\* analyze_day_schedule. longest_meeting carries isoformat() strings.
AnalyzeDaySchedule(events, half) ==
  IF events = <<>>
    THEN [total_events |-> 0, busy_hours |-> 0, free_time_blocks |-> <<>>,
          meeting_density |-> "light", longest_meeting |-> None,
          back_to_back_meetings |-> 0]
    ELSE
      LET ev == SortByStart(events)
          longest == LongestEvent(ev)
      IN [total_events |-> Len(ev),
          busy_hours |-> RoundTenths(BusySeconds(ev), half),
          free_time_blocks |-> FreeBlocksFrom(ev, 1),
          meeting_density |-> Density(Len(ev)),
          longest_meeting |->
            Some([title |-> longest.title,
                  duration_seconds |-> Duration(longest),
                  start_time |-> Isoformat(longest.start_time),
                  end_time |-> Isoformat(longest.end_time)]),
          back_to_back_meetings |-> BackToBack(ev)]

\* A Drive file as get_recent_documents / get_documents_shared_with_user
\* returns it: modified_time is parsed into a datetime object.
DocInfo(file) ==
  [id |-> file.id, name |-> file.id, modified_time |-> Dt(file.modified)]

RECURSIVE DocInfos(_)
DocInfos(files) ==
  IF files = <<>> THEN <<>> ELSE <<DocInfo(Head(files))>> \o DocInfos(Tail(files))

\* ----------------------------------------------- content_processor.py (pure)
\* The merged dict all_docs is a sequence of entries in insertion order.
HasDoc(all, id) == \E i \in 1..Len(all) : all[i].id = id

\* all_docs[id] = value: replaces in place, or appends a new key.
PutDoc(all, value) ==
  IF HasDoc(all, value.id)
    THEN [i \in 1..Len(all) |-> IF all[i].id = value.id THEN value ELSE all[i]]
    ELSE Append(all, value)

\* all_docs[id]['priority_score'] += n; all_docs[id]['sources'].append(tag)
BoostDoc(all, id, n, tag) ==
  [i \in 1..Len(all) |->
     IF all[i].id = id
       THEN [all[i] EXCEPT !.priority_score = @ + n, !.sources = Append(@, tag)]
       ELSE all[i]]

Scored(doc, score, tag) ==
  [id |-> doc.id, name |-> doc.name, modified_time |-> doc.modified_time,
   priority_score |-> score, sources |-> <<tag>>]

RECURSIVE AddRecent(_, _)
AddRecent(all, recent) ==
  IF recent = <<>> THEN all
  ELSE AddRecent(PutDoc(all, Scored(Head(recent), 1, "recent")), Tail(recent))

\* A faulty variant of the loop below: a shared document replaces the entry
\* the recent list made.
RECURSIVE AddSharedOverwriting(_, _)
AddSharedOverwriting(all, shared) ==
  IF shared = <<>> THEN all
  ELSE AddSharedOverwriting(PutDoc(all, Scored(Head(shared), 2, "shared")),
                            Tail(shared))

RECURSIVE AddShared(_, _)
AddShared(all, shared) ==
  IF shared = <<>> THEN all
  ELSE AddShared(
         IF HasDoc(all, Head(shared).id)
           THEN BoostDoc(all, Head(shared).id, 2, "shared")
           ELSE PutDoc(all, Scored(Head(shared), 2, "shared")),
         Tail(shared))

\* A URL is the sequence of its pieces between slashes:
\* https://docs.google.com/document/d/X/edit is
\* <<"https:", "", "docs.google.com", "document", "d", "X", "edit">>.
\* '/document/d/' in url: a piece "document" after a slash, then "d", then
\* another slash.
MarkerAt(url, i) ==
  /\ i > 1
  /\ i + 2 <= Len(url)
  /\ url[i] = "document"
  /\ url[i + 1] = "d"

\* _extract_doc_id_from_url: url.split('/document/d/')[1].split('/')[0] is
\* the piece after the first marker (possibly the empty string), None
\* without a marker.
ExtractDocId(url) ==
  IF \E i \in 1..Len(url) : MarkerAt(url, i)
    THEN LET first == CHOOSE i \in 1..Len(url) :
                        /\ MarkerAt(url, i)
                        /\ \A j \in 1..(i - 1) : ~MarkerAt(url, j)
         IN Some(url[first + 2])
    ELSE None

\* 'docs.google.com' in attachment.get('fileUrl', '')
IsDocsUrl(url) == \E i \in 1..Len(url) : url[i] = "docs.google.com"

\* A faulty variant of the loop below: a document referenced only by an
\* attachment is added to the merged set.
RECURSIVE AddAttachmentsAdding(_, _)
AddAttachmentsAdding(all, atts) ==
  IF atts = <<>> THEN all
  ELSE
    LET url == Head(atts).fileUrl
        id == ExtractDocId(url)
    IN AddAttachmentsAdding(
         IF IsDocsUrl(url) /\ Truthy(id)
           THEN IF HasDoc(all, id[1])
                  THEN BoostDoc(all, id[1], 3, "calendar_attachment")
                  ELSE Append(all, [id |-> id[1], name |-> id[1],
                                    modified_time |-> Dt(0), priority_score |-> 3,
                                    sources |-> <<"calendar_attachment">>])
           ELSE all,
         Tail(atts))

\* The attachments of one event; each is a dict with a fileUrl.
RECURSIVE AddAttachments(_, _)
AddAttachments(all, atts) ==
  IF atts = <<>> THEN all
  ELSE
    LET url == Head(atts).fileUrl
        id == ExtractDocId(url)
    IN AddAttachments(
         IF IsDocsUrl(url) /\ Truthy(id) /\ HasDoc(all, id[1])
           THEN BoostDoc(all, id[1], 3, "calendar_attachment")
           ELSE all,
         Tail(atts))

RECURSIVE AddEventAttachments(_, _)
AddEventAttachments(all, events) ==
  IF events = <<>> THEN all
  ELSE AddEventAttachments(AddAttachments(all, Head(events).attachments), Tail(events))

\* key (priority_score, modified_time) of a is strictly greater than that of b
KeyGreater(a, b) ==
  \/ a.priority_score > b.priority_score
  \/ /\ a.priority_score = b.priority_score
     /\ a.modified_time[2] > b.modified_time[2]

\* sorted(..., reverse=True): descending, equal keys keep their order.
RECURSIVE InsertByKey(_, _)
InsertByKey(d, s) ==
  IF s = <<>> THEN <<d>>
  ELSE IF KeyGreater(d, Head(s)) THEN <<d>> \o s
  ELSE <<Head(s)>> \o InsertByKey(d, Tail(s))

RECURSIVE SortByKeyDesc(_)
SortByKeyDesc(s) ==
  IF s = <<>> THEN <<>>
  ELSE InsertByKey(s[Len(s)], SortByKeyDesc(SubSeq(s, 1, Len(s) - 1)))

\* _prioritize_documents
PrioritizeDocuments(recent, shared, events) ==
  SortByKeyDesc(AddEventAttachments(AddShared(AddRecent(<<>>, recent), shared), events))

\* A faulty variant of the summary below: the day without events is reported
\* with a highlight.
CreateCalendarSummaryHighlighting(events, analysis) ==
  [raised |-> FALSE,
   value |-> [type |-> "light_day", total_events |-> Len(events),
              busy_hours |-> 0, key_highlights |-> <<"no_meetings">>]]

\* _create_calendar_summary. For a non-empty list the long-meeting check
\* subtracts analysis['longest_meeting'] start_time from end_time.
CreateCalendarSummary(events, analysis) ==
  IF events = <<>>
    THEN [raised |-> FALSE,
          value |-> [type |-> "light_day", total_events |-> 0,
                     busy_hours |-> 0, key_highlights |-> <<>>]]
    ELSE
      LET density == analysis.meeting_density
          day_type == IF density = "heavy" THEN "busy_day"
                      ELSE IF density = "moderate" THEN "moderate_day"
                      ELSE "light_day"
          has_longest == analysis.longest_meeting # None
          longest == analysis.longest_meeting[1]
          d == Minus(longest.end_time, longest.start_time)
      IN IF has_longest /\ d.raised
           THEN [raised |-> TRUE, value |-> TypeErrorText]
           ELSE [raised |-> FALSE,
                 value |-> [type |-> day_type,
                            total_events |-> analysis.total_events,
                            busy_hours |-> analysis.busy_hours,
                            key_highlights |->
                              IF has_longest /\ d.seconds > LongMeeting
                                THEN <<"long_meeting">> ELSE <<>>]]

\* _create_documents_summary
CreateDocumentsSummary(documents) ==
  IF documents = <<>>
    THEN [total_documents |-> 0, top_documents |-> <<>>]
    ELSE [total_documents |-> Len(documents),
          top_documents |-> Take(documents, TopDocuments)]

\* A preview is described by the number of characters it takes from the
\* document text and the number of characters added around them.
PreviewChars(p) == p.taken + p.added

\* content['content'][:500] + '...' if len(content['content']) > 500
\* else content['content']
ContentPreview(chars) ==
  IF chars > PreviewLimit
    THEN [taken |-> PreviewLimit, added |-> EllipsisChars]
    ELSE [taken |-> chars, added |-> 0]

\* f"Document: {doc['name']} (content not accessible)"
PlaceholderPreview(doc) == [taken |-> 0, added |-> PlaceholderChars + NameChars]

\* One record of _process_individual_documents: with the fetched content, or
\* the placeholder when get_document_content returned None.
DocumentDetail(doc, content) ==
  [id |-> doc.id, modified_time |-> doc.modified_time,
   content_preview |-> IF content = None THEN PlaceholderPreview(doc)
                       ELSE ContentPreview(content[1].chars),
   word_count |-> IF content = None THEN 0 ELSE content[1].word_count,
   placeholder |-> content = None,
   priority_score |-> doc.priority_score, sources |-> doc.sources]

\* json.dumps(daily_content): a datetime object anywhere in the structure is
\* not JSON serializable and raises TypeError.
ContentHasDatetime(c) ==
  \/ \E i \in 1..Len(c.raw_data.calendar_events) :
       \/ IsDatetime(c.raw_data.calendar_events[i].start_time)
       \/ IsDatetime(c.raw_data.calendar_events[i].end_time)
  \/ \E i \in 1..Len(c.raw_data.documents) :
       IsDatetime(c.raw_data.documents[i].modified_time)
  \/ \E i \in 1..Len(c.individual_documents) :
       IsDatetime(c.individual_documents[i].modified_time)

JsonDumps(c) ==
  IF ContentHasDatetime(c)
    THEN [raised |-> TRUE, value |-> TypeErrorText]
    ELSE [raised |-> FALSE, value |-> <<"json", c>>]

\* json.dumps(document) of the document flow: the caller's dict may carry a
\* modified_time (absent: <<>>).
JsonDumpsDocument(document) ==
  IF document.modified_time # <<>> /\ IsDatetime(document.modified_time)
    THEN [raised |-> TRUE, value |-> TypeErrorText]
    ELSE [raised |-> FALSE, value |-> <<"json", document>>]

\* --------------------------------------------------------- crud.py (pure)
\* UserCRUD.get_user_by_id: the row with that id, if any.
UserExists(user_id) == user_id \in 1..Len(users)

\* GenerationLogCRUD.create_log
NewLog(id, user_id) ==
  [id |-> id, user_id |-> user_id, status |-> "pending",
   error_message |-> None, episodes_generated |-> 0,
   started_at |-> now, completed_at |-> None]

\* A faulty variant of the update below: every log of the same user is
\* updated, not only the log with the given id.
UpdateLogStatusOfUser(table, log_id, status, error_message, episodes_generated) ==
  [i \in 1..Len(table) |->
     IF table[i].user_id # table[log_id].user_id THEN table[i]
     ELSE [table[i] EXCEPT
             !.status = status,
             !.error_message = IF Truthy(error_message) THEN error_message ELSE @,
             !.episodes_generated = episodes_generated,
             !.completed_at = IF status \in {"completed", "failed"}
                                THEN Some(now) ELSE @]]

\* GenerationLogCRUD.update_log_status (error_message is an optional text)
UpdateLogStatus(table, log_id, status, error_message, episodes_generated) ==
  [i \in 1..Len(table) |->
     IF table[i].id # log_id THEN table[i]
     ELSE [table[i] EXCEPT
             !.status = status,
             !.error_message = IF Truthy(error_message) THEN error_message ELSE @,
             !.episodes_generated = episodes_generated,
             !.completed_at = IF status \in {"completed", "failed"}
                                THEN Some(now) ELSE @]]

\* PodcastCRUD.create_episode: a row with empty audio fields
NewEpisode(id, user_id, episode_type, source_data) ==
  [id |-> id, user_id |-> user_id, audio_url |-> <<>>,
   audio_file_path |-> <<>>, duration_seconds |-> 0, file_size_bytes |-> 0,
   episode_type |-> episode_type, source_data |-> source_data,
   published_at |-> now]

\* PodcastCRUD.create_welcome_episode: the row create_user adds for a new
\* user, with empty audio fields.
WelcomeEpisode(id, user_id) ==
  [id |-> id, user_id |-> user_id, audio_url |-> <<>>,
   audio_file_path |-> <<>>, duration_seconds |-> 0, file_size_bytes |-> 0,
   episode_type |-> "welcome", source_data |-> <<"json", "welcome">>,
   published_at |-> now]

\* A faulty variant of the update below: the audio goes to the first row of
\* the table that has none.
UpdateRowAudioFirstEmpty(table, episode_id, info) ==
  LET first == CHOOSE i \in 1..Len(table) :
                 /\ table[i].audio_url = <<>>
                 /\ \A j \in 1..(i - 1) : table[j].audio_url # <<>>
  IN [i \in 1..Len(table) |->
        IF i # first THEN table[i]
        ELSE [table[i] EXCEPT
                !.audio_url = info.audio_url,
                !.audio_file_path = info.file_path,
                !.duration_seconds = info.duration_seconds,
                !.file_size_bytes = info.file_size]]

\* A faulty variant of the update below: the URL is not stored.
UpdateRowAudioNoUrl(table, episode_id, info) ==
  [i \in 1..Len(table) |->
     IF table[i].id # episode_id THEN table[i]
     ELSE [table[i] EXCEPT
             !.audio_file_path = info.file_path,
             !.duration_seconds = info.duration_seconds,
             !.file_size_bytes = info.file_size]]

\* PodcastCRUD.update_episode_audio
UpdateRowAudio(table, episode_id, info) ==
  [i \in 1..Len(table) |->
     IF table[i].id # episode_id THEN table[i]
     ELSE [table[i] EXCEPT
             !.audio_url = info.audio_url,
             !.audio_file_path = info.file_path,
             !.duration_seconds = info.duration_seconds,
             !.file_size_bytes = info.file_size]]

\* ------------------------------------------------ podcast_generator.py (pure)
\* Word counts of the locally templated scripts.
FallbackScript(kind) ==
  [source |-> "fallback",
   words |-> CASE kind = "welcome" -> 104 [] kind = "daily" -> 26 [] OTHER -> 12]

GeneratedScript(text) == [source |-> "llm", words |-> text.words]

\* The calendar date of a clock value.
TicksPerDay == 2
DateOf(t) == t \div TicksPerDay

\* A faulty variant of the file names below: the daily name carries the
\* time of the rendering, as the other two do.
AudioFilenameStamped(kind, user_id, document) ==
  CASE kind = "welcome" -> <<"welcome", user_id, now>>
    [] kind = "daily" -> <<"daily", user_id, now>>
    [] OTHER -> <<"document", user_id, document.id, now>>

\* generate_welcome_audio / generate_daily_audio / generate_document_audio
AudioFilename(kind, user_id, document) ==
  CASE kind = "welcome" -> <<"welcome", user_id, now>>
    [] kind = "daily" -> <<"daily", user_id, DateOf(now)>>
    [] OTHER -> <<"document", user_id, document.id, now>>

\* generate_audio_from_script, after the speech call returned: the duration
\* is estimated from the word count (exact for the word counts used here).
AudioInfo(script, filename, size) ==
  [file_path |-> <<"audio_files">> \o filename,
   file_size |-> size,
   duration_seconds |-> (script.words * 60) \div WordsPerMinute,
   audio_url |-> <<"audio_base_url">> \o filename]

\* ------------------------------------------- what the outside world answers
CalWork == [id |-> "work", selected |-> TRUE, hidden |-> FALSE]
CalHome == [id |-> "home", selected |-> TRUE, hidden |-> FALSE]
CalHidden == [id |-> "hidden", selected |-> TRUE, hidden |-> TRUE]
\* calendarList().list() results
CalendarLists == { <<CalWork, CalHidden>> }
CalUnselected == [id |-> "unselected", selected |-> FALSE, hidden |-> FALSE]
CalTeam == [id |-> "team", selected |-> TRUE, hidden |-> FALSE]
\* calendarList().list() results of an account with several calendars
ManyCalendarLists ==
  { <<CalWork, CalHome, CalHidden>>, <<CalHome, CalUnselected, CalWork>>,
    <<CalHidden, CalHome>>, <<CalUnselected, CalHidden>>,
    <<CalTeam, CalHidden, CalWork, CalHome>> }
CalendarListsFor(kind) ==
  IF kind = "calendars" THEN ManyCalendarLists ELSE CalendarLists

RawMeeting ==
  [id |-> "meeting", start |-> [kind |-> "dateTime", v |-> 32400],
   end |-> [kind |-> "dateTime", v |-> 36000], attachments |-> <<>>]
\* events().list() results for one calendar
RawEventLists == { <<>>, <<RawMeeting>> }
\* The home calendar has an event before the meeting and one after it.
RawEarly ==
  [id |-> "breakfast", start |-> [kind |-> "dateTime", v |-> 28800],
   end |-> [kind |-> "dateTime", v |-> 30600], attachments |-> <<>>]
RawLate ==
  [id |-> "dinner", start |-> [kind |-> "dateTime", v |-> 68400],
   end |-> [kind |-> "dateTime", v |-> 72000], attachments |-> <<>>]
RawEventListsOf(cal) ==
  IF cal.id = "home" THEN { <<RawEarly>>, <<RawEarly, RawLate>> } ELSE RawEventLists

FileA == [id |-> "docA", modified |-> 100]
FileB == [id |-> "docB", modified |-> 200]
\* files().list() results
DriveFileLists == { <<>>, <<FileA>> }

\* documents().get() results, as get_document_content summarises them
\* (chars is the length of the stripped text, char_count that of the raw one)
DocContents == { [word_count |-> 3, chars |-> 18, char_count |-> 20] }
\* Document texts around the preview limit.
LongDocContents ==
  { [word_count |-> 0, chars |-> 0, char_count |-> 0],
    [word_count |-> 80, chars |-> PreviewLimit - 1, char_count |-> PreviewLimit],
    [word_count |-> 80, chars |-> PreviewLimit, char_count |-> PreviewLimit + 2],
    [word_count |-> 80, chars |-> PreviewLimit + 1, char_count |-> PreviewLimit + 1],
    [word_count |-> 200, chars |-> 2 * PreviewLimit + 200, char_count |-> 2 * PreviewLimit + 200] }
DocContentsFor(kind) == IF kind = "details" THEN LongDocContents ELSE DocContents
\* chat.completions.create() results
LlmTexts == { [words |-> 300] }
\* size of the file the speech response is streamed to
FileSizes == { 4096 }
\* document_data dicts a caller passes to the document flow
DocumentInputs ==
  { [id |-> "docA", modified_time |-> <<>>],
    [id |-> "docA", modified_time |-> Dt(100)] }

\* Outcomes of a Google API call: a result, an HttpError, another exception.
GoogleOutcomes == {"ok", "http", "exc"}

\* --------------------------------------------------------------- the state
Frame0 ==
  [kind |-> "none", caller |-> "none", user_id |-> 0, log_id |-> 0,
   calendars |-> <<>>, events |-> <<>>, analysis |-> <<>>,
   recent |-> <<>>, shared |-> <<>>,
   ranked |-> <<>>, todo |-> <<>>, individual |-> <<>>, content |-> <<>>,
   document |-> <<>>, script |-> <<>>, audio_info |-> <<>>,
   source_data |-> <<>>, episode_id |-> 0, calls |-> <<>>,
   ret |-> 0, error |-> None, logs_before |-> 0, episodes_before |-> 0,
   db |-> 0, should_close_db |-> FALSE]

Sweep0 ==
  [active |-> FALSE, queue |-> <<>>, total_users |-> 0, successful |-> 0,
   failed |-> 0, errors |-> <<>>, attempted |-> <<>>, episodes_before |-> 0,
   db |-> 0]

NoResp == [kind |-> "none"]

\* A row of the users table as create_user leaves it; tokens are numbers,
\* the refresh token is optional.
UserRow(id, active) ==
  [id |-> id, email |-> <<"user", id>>, rss_feed_url |-> <<"rss", id>>,
   google_access_token |-> 1, google_refresh_token |-> Some(1),
   is_active |-> active]

Init ==
  /\ \E a2 \in BOOLEAN : users = << UserRow(1, TRUE), UserRow(2, a2) >>
  /\ now = 0
  /\ episodes = << WelcomeEpisode(1, 1), WelcomeEpisode(2, 2) >>
  /\ logs = <<>>
  /\ pc = "idle"
  /\ cur = Frame0
  /\ sweep = Sweep0
  /\ resp = NoResp
  /\ nreq = 0
  /\ sessions = {}
  /\ audio_files = {}

\* SessionLocal(): a new session, one that is not among the open ones.
SessionLocal ==
  CHOOSE s \in 1..(Cardinality(sessions) + 1) : s \notin sessions

\* A faulty variant of the block below: the session is closed whether or not
\* the call opened it.
FinallyAlways ==
  sessions' = IF pc' = "done" THEN sessions \ {cur'.db} ELSE sessions

\* The finally block of a pipeline call, run when the call leaves:
\* `if should_close_db: db.close()` in the daily flow, `db.close()` in the
\* document flow, nothing in the welcome flow.
Finally ==
  sessions' = IF pc' = "done" /\ cur'.should_close_db
                THEN sessions \ {cur'.db} ELSE sessions

\* One external call recorded in the frame.
Call(api, arg, outcome) == [api |-> api, arg |-> arg, outcome |-> outcome]

\* A new top-level request may start: the process handles one at a time.
CanStart == pc = "idle" /\ ~sweep.active /\ nreq < MaxRequests

StartRequest ==
  /\ nreq' = nreq + 1
  /\ resp' = NoResp

\* An exception leaves the try block of the running flow with frame f: the
\* daily flow records it in its log (podcast_pipeline.py:121-127), the other
\* flows only return None.
Raise(f, msg) ==
  /\ logs' = IF f.kind = "daily"
               THEN UpdateLogStatus(logs, f.log_id, "failed", Some(msg), 0)
               ELSE logs
  /\ cur' = [f EXCEPT !.ret = 0, !.error = Some(msg)]
  /\ pc' = "done"

\* ------------------------------------- generate_daily_podcast_for_user
\* Lines 67-79: look the user up and create the log in pending.
DailyEntry(user_id, caller) ==
  LET f == [Frame0 EXCEPT !.kind = "daily", !.caller = caller, !.user_id = user_id,
                          !.logs_before = Len(logs),
                           !.episodes_before = Len(episodes),
                          !.db = SessionLocal,
                          !.should_close_db = (caller # "http")]
  IN IF ~UserExists(user_id)
       THEN /\ pc' = "done"
            /\ cur' = f
            /\ sessions' = IF f.should_close_db THEN sessions
                            ELSE sessions \cup {f.db}
            /\ UNCHANGED logs
       ELSE /\ logs' = Append(logs, NewLog(Len(logs) + 1, user_id))
            /\ cur' = [f EXCEPT !.log_id = Len(logs) + 1]
            /\ sessions' = sessions \cup {f.db}
            /\ pc' = "log_created"

DailyStart(user_id) ==
  /\ CanStart
  /\ StartRequest
  /\ DailyEntry(user_id, "direct")
  /\ UNCHANGED <<users, episodes, now, sweep, audio_files>>

\* A faulty variant of the step below: the flow goes on without advancing
\* the log.
DailyProcessingSkipped ==
  /\ pc = "log_created"
  /\ pc' = "aggregate_calendars"
  /\ UNCHANGED <<users, episodes, logs, now, cur, sweep, resp, nreq,
                 audio_files>>
  /\ Finally

\* Line 80: the log is advanced to processing.
DailyProcessing ==
  /\ pc = "log_created"
  /\ logs' = UpdateLogStatus(logs, cur.log_id, "processing", None, 0)
  /\ pc' = "aggregate_calendars"
  /\ UNCHANGED <<users, episodes, now, cur, sweep, resp, nreq, audio_files>>
  /\ Finally

\* get_today_events -> _get_all_calendars: the calendar list call. An
\* HttpError falls back to the primary calendar, any other exception leaves
\* get_today_events (which catches HttpError only) and the aggregator.
CalendarList ==
  /\ pc = "aggregate_calendars"
  /\ \E outcome \in GoogleOutcomes :
       LET f == [cur EXCEPT !.calls = Append(@, Call("calendar.list", "", outcome))]
       IN CASE outcome = "ok" ->
                 \E items \in CalendarListsFor(cur.kind) :
                   /\ cur' = [f EXCEPT !.calendars = VisibleCalendars(items)]
                   /\ pc' = "aggregate_events"
                   /\ UNCHANGED logs
            [] outcome = "http" ->
                 /\ cur' = [f EXCEPT !.calendars = PrimaryOnly]
                 /\ pc' = "aggregate_events"
                 /\ UNCHANGED logs
            [] OTHER -> \E msg \in Messages : Raise(f, msg)
  /\ UNCHANGED <<users, episodes, now, sweep, resp, nreq, audio_files>>
  /\ Finally

\* get_today_events, one turn of the loop over the calendars: an HttpError
\* skips the calendar, any other exception is not caught there.
EventsFetch ==
  /\ pc = "aggregate_events"
  /\ cur.calendars # <<>>
  /\ LET cal == Head(cur.calendars) IN
     \E outcome \in GoogleOutcomes :
       LET f == [cur EXCEPT !.calls = Append(@, Call("events.list", cal.id, outcome)),
                            !.calendars = Tail(@)]
       IN CASE outcome = "ok" ->
                 \E raws \in RawEventListsOf(cal) :
                   /\ cur' = [f EXCEPT !.events = @ \o ProcessEvents(raws, cal)]
                   /\ pc' = "aggregate_events"
                   /\ UNCHANGED logs
            [] outcome = "http" ->
                 /\ cur' = f
                 /\ pc' = "aggregate_events"
                 /\ UNCHANGED logs
            [] OTHER -> \E msg \in Messages : Raise(f, msg)
  /\ UNCHANGED <<users, episodes, now, sweep, resp, nreq, audio_files>>
  /\ Finally

\* get_today_events after the loop: all_events.sort(key=start_time); then
\* generate_daily_content analyzes the schedule (content_processor.py:20).
EventsDone ==
  /\ pc = "aggregate_events"
  /\ cur.calendars = <<>>
  /\ \E half \in HalfTies :
       cur' = [cur EXCEPT !.events = SortByStart(@),
                          !.analysis = Some(AnalyzeDaySchedule(SortByStart(cur.events), half))]
  /\ pc' = "aggregate_recent"
  /\ UNCHANGED <<users, episodes, logs, now, sweep, resp, nreq, audio_files>>
  /\ Finally

\* get_recent_documents(days=1): an HttpError yields the empty list.
RecentDocs ==
  /\ pc = "aggregate_recent"
  /\ \E outcome \in GoogleOutcomes :
       LET f == [cur EXCEPT !.calls = Append(@, Call("drive.recent", "", outcome))]
       IN CASE outcome = "ok" ->
                 \E files \in DriveFileLists :
                   /\ cur' = [f EXCEPT !.recent = DocInfos(files)]
                   /\ pc' = "aggregate_shared"
                   /\ UNCHANGED logs
            [] outcome = "http" ->
                 /\ cur' = f
                 /\ pc' = "aggregate_shared"
                 /\ UNCHANGED logs
            [] OTHER -> \E msg \in Messages : Raise(f, msg)
  /\ UNCHANGED <<users, episodes, now, sweep, resp, nreq, audio_files>>
  /\ Finally

\* The tail of generate_daily_content once the shared list is known:
\* _prioritize_documents, then the dict literal evaluates
\* _create_calendar_summary and _create_documents_summary before the
\* per-document fetches start.
AfterLists(f, shared) ==
  LET ranked == PrioritizeDocuments(f.recent, shared, f.events)
      summary == CreateCalendarSummary(f.events, f.analysis[1])
      g == [f EXCEPT !.shared = shared, !.ranked = ranked,
                     !.todo = Take(ranked, TopDocuments)]
  IN IF summary.raised
       THEN Raise(g, summary.value)
       ELSE /\ cur' = g
            /\ pc' = "aggregate_documents"
            /\ UNCHANGED logs

\* get_documents_shared_with_user(days=1), and what follows it.
SharedDocs ==
  /\ pc = "aggregate_shared"
  /\ \E outcome \in GoogleOutcomes :
       LET f == [cur EXCEPT !.calls = Append(@, Call("drive.shared", "", outcome))]
       IN CASE outcome = "ok" ->
                 \E files \in DriveFileLists : AfterLists(f, DocInfos(files))
            [] outcome = "http" -> AfterLists(f, <<>>)
            [] OTHER -> \E msg \in Messages : Raise(f, msg)
  /\ UNCHANGED <<users, episodes, now, sweep, resp, nreq, audio_files>>
  /\ Finally

\* _process_individual_documents, one turn of the loop: the content, or the
\* placeholder when get_document_content caught an HttpError and returned
\* None; any other exception is caught by the loop, which moves on.
DocContent ==
  /\ pc = "aggregate_documents"
  /\ cur.todo # <<>>
  /\ LET doc == Head(cur.todo) IN
     \E outcome \in GoogleOutcomes :
       LET f == [cur EXCEPT !.calls = Append(@, Call("docs.get", doc.id, outcome)),
                            !.todo = Tail(@)]
       IN CASE outcome = "ok" ->
                 \E content \in DocContentsFor(cur.kind) :
                   cur' = [f EXCEPT !.individual =
                                      Append(@, DocumentDetail(doc, Some(content)))]
            [] outcome = "http" ->
                 cur' = [f EXCEPT !.individual = Append(@, DocumentDetail(doc, None))]
            [] OTHER -> cur' = f
  /\ UNCHANGED <<users, episodes, logs, now, pc, sweep, resp, nreq, sessions,
                 audio_files>>

\* generate_daily_content returns the aggregate.
DailyContent(f) ==
  [date |-> Isoformat(Dt(now)),
   calendar_summary |->
     CreateCalendarSummary(f.events, f.analysis[1]).value,
   documents_summary |-> CreateDocumentsSummary(f.ranked),
   individual_documents |-> f.individual,
   raw_data |-> [calendar_events |-> f.events,
                 schedule_analysis |-> f.analysis[1],
                 documents |-> f.ranked]]

ContentDone ==
  /\ pc = "aggregate_documents"
  /\ cur.todo = <<>>
  /\ cur' = [cur EXCEPT !.content = Some(DailyContent(cur))]
  /\ pc' = "script"
  /\ UNCHANGED <<users, episodes, logs, now, sweep, resp, nreq, audio_files>>
  /\ Finally

\* ------------------------------------------------ PodcastGenerationService
\* A faulty variant of the script step below: the handler re-raises.
GenerateScriptRaising(kind, outcome, text) ==
  IF outcome = "ok"
    THEN [raised |-> FALSE, value |-> GeneratedScript(text)]
    ELSE [raised |-> TRUE, value |-> "error"]

\* generate_welcome_script / generate_daily_podcast_script /
\* generate_document_deep_dive_script: the language-model call sits in a
\* try block whose handler returns the local template.
GenerateScript(kind, outcome, text) ==
  IF outcome = "ok"
    THEN [raised |-> FALSE, value |-> GeneratedScript(text)]
    ELSE [raised |-> FALSE, value |-> FallbackScript(kind)]

\* A faulty variant of the audio step below: a failed speech call yields an
\* empty audio file instead of raising.
GenerateAudioFallback(script, filename, outcome, size, msg) ==
  [raised |-> FALSE, value |-> AudioInfo(script, filename, 0)]

\* generate_audio_from_script: the handler logs and re-raises.
GenerateAudio(script, filename, outcome, size, msg) ==
  IF outcome = "ok"
    THEN [raised |-> FALSE, value |-> AudioInfo(script, filename, size)]
    ELSE [raised |-> TRUE, value |-> msg]

\* The source_data the episode is created with: '{}' for welcome,
\* json.dumps(daily_content) and json.dumps(document) otherwise.
SourceData(f) ==
  CASE f.kind = "welcome" -> [raised |-> FALSE, value |-> <<"json", <<>> >>]
    [] f.kind = "daily" -> JsonDumps(f.content[1])
    [] OTHER -> JsonDumpsDocument(f.document[1])

\* response.stream_to_file(audio_path): the file at that path is created or
\* replaced.
WriteFile(fs, path) ==
  {f \in fs : f.path # path} \cup {[path |-> path, rendered_at |-> now]}

\* The script step of the three flows.
Script ==
  /\ pc = "script"
  /\ \E outcome \in {"ok", "exc"}, text \in LlmTexts :
       LET f == [cur EXCEPT !.calls = Append(@, Call("llm", "", outcome))]
           r == GenerateScript(cur.kind, outcome, text)
       IN IF r.raised
            THEN Raise(f, r.value)
            ELSE /\ cur' = [f EXCEPT !.script = Some(r.value)]
                 /\ pc' = "audio"
                 /\ UNCHANGED logs
  /\ UNCHANGED <<users, episodes, now, sweep, resp, nreq, audio_files>>
  /\ Finally

\* The audio step of the three flows, and the rest of generate_*_podcast:
\* the returned dict serializes the source data after the audio is rendered.
\* The file is on disk as soon as generate_audio_from_script has returned,
\* that is, whenever the frame holds an audio_info.
Audio ==
  /\ pc = "audio"
  /\ \E outcome \in {"ok", "exc"}, size \in FileSizes, msg \in Messages :
       LET f == [cur EXCEPT !.calls = Append(@, Call("tts", "", outcome))]
           name == AudioFilename(cur.kind, cur.user_id,
                                 IF cur.kind = "document" THEN cur.document[1]
                                 ELSE [id |-> ""])
           r == GenerateAudio(cur.script[1], name, outcome, size, msg)
           g == [f EXCEPT !.audio_info = Some(r.value)]
           src == SourceData(g)
       IN IF r.raised THEN Raise(f, r.value)
          ELSE IF src.raised THEN Raise(g, src.value)
          ELSE /\ cur' = [g EXCEPT !.source_data = src.value]
               /\ pc' = "create_episode"
               /\ UNCHANGED logs
  /\ UNCHANGED <<users, episodes, now, sweep, resp, nreq>>
  /\ audio_files' = IF cur'.audio_info # None
                      THEN WriteFile(audio_files, cur'.audio_info[1].file_path)
                      ELSE audio_files
  /\ Finally

\* podcast_crud.create_episode: the placeholder row.
CreateEpisode ==
  /\ pc = "create_episode"
  /\ episodes' = Append(episodes,
                   NewEpisode(Len(episodes) + 1, cur.user_id, cur.kind, cur.source_data))
  /\ cur' = [cur EXCEPT !.episode_id = Len(episodes) + 1]
  /\ pc' = "update_episode"
  /\ UNCHANGED <<users, logs, now, sweep, resp, nreq, audio_files>>
  /\ Finally

\* podcast_crud.update_episode_audio; the welcome and document flows return
\* the episode here.
UpdateEpisode ==
  /\ pc = "update_episode"
  /\ episodes' = UpdateRowAudio(episodes, cur.episode_id, cur.audio_info[1])
  /\ IF cur.kind = "daily"
       THEN /\ pc' = "complete_log"
            /\ UNCHANGED cur
       ELSE /\ pc' = "done"
            /\ cur' = [cur EXCEPT !.ret = cur.episode_id]
  /\ UNCHANGED <<users, logs, now, sweep, resp, nreq, audio_files>>
  /\ Finally

\* Line 116: the daily flow finalizes its log and returns the episode.
CompleteLog ==
  /\ pc = "complete_log"
  /\ logs' = UpdateLogStatus(logs, cur.log_id, "completed", None, 1)
  /\ cur' = [cur EXCEPT !.ret = cur.episode_id]
  /\ pc' = "done"
  /\ UNCHANGED <<users, episodes, now, sweep, resp, nreq, audio_files>>
  /\ Finally

\* generate_welcome_podcast_for_user, up to the service call.
WelcomeStart(user_id) ==
  /\ CanStart
  /\ StartRequest
  /\ cur' = [Frame0 EXCEPT !.kind = "welcome", !.caller = "direct",
                           !.user_id = user_id, !.logs_before = Len(logs),
                           !.episodes_before = Len(episodes),
                           !.db = SessionLocal]
  /\ sessions' = sessions \cup {SessionLocal}
  /\ pc' = IF UserExists(user_id) THEN "script" ELSE "done"
  /\ UNCHANGED <<users, episodes, logs, now, sweep, audio_files>>

\* A faulty variant of the entry below: the document flow opens a log as
\* the daily flow does.
DocumentStartLogged(user_id, document) ==
  /\ CanStart
  /\ StartRequest
  /\ cur' = [Frame0 EXCEPT !.kind = "document", !.caller = "direct",
                           !.user_id = user_id, !.document = Some(document),
                           !.logs_before = Len(logs),
                           !.episodes_before = Len(episodes),
                           !.log_id = IF UserExists(user_id) THEN Len(logs) + 1 ELSE 0,
                           !.db = SessionLocal, !.should_close_db = TRUE]
  /\ sessions' = IF UserExists(user_id) THEN sessions \cup {SessionLocal} ELSE sessions
  /\ logs' = IF UserExists(user_id)
               THEN Append(logs, [NewLog(Len(logs) + 1, user_id) EXCEPT
                                    !.status = "processing"])
               ELSE logs
  /\ pc' = IF UserExists(user_id) THEN "script" ELSE "done"
  /\ UNCHANGED <<users, episodes, now, sweep, audio_files>>

\* generate_document_podcast_for_user, up to the service call.
DocumentStart(user_id, document) ==
  /\ CanStart
  /\ StartRequest
  /\ cur' = [Frame0 EXCEPT !.kind = "document", !.caller = "direct",
                           !.user_id = user_id, !.document = Some(document),
                           !.logs_before = Len(logs),
                           !.episodes_before = Len(episodes),
                           !.db = SessionLocal, !.should_close_db = TRUE]
  /\ sessions' = IF UserExists(user_id) THEN sessions \cup {SessionLocal} ELSE sessions
  /\ pc' = IF UserExists(user_id) THEN "script" ELSE "done"
  /\ UNCHANGED <<users, episodes, logs, now, sweep, audio_files>>

\* A directly called flow returns to its caller.
Return ==
  /\ pc = "done"
  /\ cur.caller = "direct"
  /\ pc' = "idle"
  /\ cur' = Frame0
  /\ now' = now + 1
  /\ sessions' = sessions \ {cur.db}
  /\ UNCHANGED <<users, episodes, logs, sweep, resp, nreq, audio_files>>

\* ------------------------------- generate_daily_podcasts_for_all_users
RECURSIVE Ids(_)
Ids(rows) == IF rows = <<>> THEN <<>> ELSE <<Head(rows).id>> \o Ids(Tail(rows))

\* A faulty variant of the query below: the is_active filter is forgotten.
AllUserIds == Ids(users)

\* db.query(User).filter(User.is_active == True).all()
ActiveUserIds == Ids(SelectSeq(users, LAMBDA u : u.is_active))

SweepStart ==
  /\ CanStart
  /\ StartRequest
  /\ sweep' = [Sweep0 EXCEPT !.active = TRUE, !.queue = ActiveUserIds,
                             !.db = SessionLocal,
                             !.total_users = Len(ActiveUserIds),
                             !.episodes_before = Len(episodes)]
  /\ sessions' = sessions \cup {SessionLocal}
  /\ UNCHANGED <<users, episodes, logs, now, pc, cur, audio_files>>

\* Line 192: the loop calls the daily flow for the next user.
SweepCall ==
  /\ sweep.active
  /\ pc = "idle"
  /\ sweep.queue # <<>>
  /\ DailyEntry(Head(sweep.queue), "sweep")
  /\ UNCHANGED <<users, episodes, now, sweep, resp, nreq, audio_files>>

\* Lines 193-197: the loop counts the outcome and moves on.
SweepCollect ==
  /\ sweep.active
  /\ pc = "done"
  /\ cur.caller = "sweep"
  /\ sweep' = [sweep EXCEPT
                 !.queue = Tail(@),
                 !.attempted = Append(@, cur.user_id),
                 !.successful = IF cur.ret # 0 THEN @ + 1 ELSE @,
                 !.failed = IF cur.ret # 0 THEN @ ELSE @ + 1,
                 !.errors = IF cur.ret # 0 THEN @ ELSE Append(@, cur.user_id)]
  /\ pc' = "idle"
  /\ cur' = Frame0
  /\ UNCHANGED <<users, episodes, logs, now, resp, nreq, sessions, audio_files>>

\* Line 203: the sweep returns its counts.
SweepFinish ==
  /\ sweep.active
  /\ pc = "idle"
  /\ sweep.queue = <<>>
  /\ resp' = [kind |-> "sweep", total_users |-> sweep.total_users,
              successful |-> sweep.successful, failed |-> sweep.failed,
              errors |-> sweep.errors, attempted |-> sweep.attempted,
              episodes_before |-> sweep.episodes_before]
  /\ sweep' = Sweep0
  /\ now' = now + 1
  /\ sessions' = sessions \ {sweep.db}
  /\ UNCHANGED <<users, episodes, logs, pc, cur, nreq, audio_files>>

\* ------------------------------------------------------- the feed, read side
\* The ways the engine may order rows of equal published_at.
TieOrders == {"id_asc", "id_desc"}

\* ORDER BY published_at DESC: row a precedes row b. Rows of equal
\* published_at come in the order the engine happens to scan them.
PublishedBefore(a, b, tie) ==
  \/ a.published_at > b.published_at
  \/ /\ a.published_at = b.published_at
     /\ IF tie = "id_asc" THEN a.id < b.id ELSE a.id > b.id

\* A faulty variant of the query below: the LIMIT is forgotten.
GetUserEpisodesUnlimited(table, user_id, limit, tie) ==
  SortSeq(SelectSeq(table, LAMBDA e : e.user_id = user_id),
          LAMBDA a, b : PublishedBefore(a, b, tie))

\* PodcastCRUD.get_user_episodes
GetUserEpisodes(table, user_id, limit, tie) ==
  LET mine == SelectSeq(table, LAMBDA e : e.user_id = user_id)
  IN Take(SortSeq(mine, LAMBDA a, b : PublishedBefore(a, b, tie)), limit)

\* _format_duration: <<MM, SS>> or <<HH, MM, SS>>
FormatDuration(seconds) ==
  LET hours == seconds \div 3600
      minutes == (seconds % 3600) \div 60
      secs == seconds % 60
  IN IF hours > 0 THEN <<hours, minutes, secs>> ELSE <<minutes, secs>>

FeedEntry(e) ==
  [id |-> <<"episode", e.id>>,
   enclosure |-> [url |-> e.audio_url, length |-> e.file_size_bytes,
                  type |-> "audio/mpeg"],
   pubDate |-> e.published_at,
   duration |-> FormatDuration(e.duration_seconds)]

\* A faulty variant of the test below: every episode is published.
HasAudioAlways(e) == TRUE

\* `if episode.audio_url:` of generate_user_feed
HasAudio(e) == e.audio_url # <<>>

\* RSSFeedGenerator.generate_user_feed: the entries of the feed, in the
\* order fg.add_entry() keeps them (it puts each new entry first).
FeedEntries(eps) ==
  LET kept == SelectSeq(eps, HasAudio)
  IN [k \in 1..Len(kept) |-> FeedEntry(kept[Len(kept) + 1 - k])]

GenerateUserFeed(user, eps) ==
  [title |-> user.email, entries |-> FeedEntries(eps)]

\* PodcastPipeline.get_user_rss_feed: None (<<>>) for an unknown user.
PipelineRssFeed(user_id, tie) ==
  IF ~UserExists(user_id) THEN None
  ELSE LET eps == GetUserEpisodes(episodes, user_id, FeedLimit, tie)
       IN Some([episodes |-> eps, xml |-> GenerateUserFeed(users[user_id], eps)])

\* ---------------------------------------------------- main.py, RSS endpoints
HttpError(status) == [raised |-> TRUE, status |-> status, feed |-> None]
HttpOk(feed) == [raised |-> FALSE, status |-> 200, feed |-> feed]

\* `except Exception` around a handler body: whatever the body raised, an
\* HTTPException included, is answered with a 500.
CatchAll(r) == IF r.raised THEN HttpError(500) ELSE r

\* The body both handlers share once the user is known (lines 192-199).
ServeFeed(user_id, tie) ==
  LET rss == PipelineRssFeed(user_id, tie)
  IN IF rss # None THEN HttpOk(rss) ELSE HttpError(500)

\* GET /users/{user_id}/rss: the lookup precedes the try block.
UserRssResponse(user_id, tie) ==
  IF ~UserExists(user_id) THEN HttpError(404)
  ELSE CatchAll(ServeFeed(user_id, tie))

\* The user whose rss_feed_url is /rss/{feed_id}, 0 if there is none.
UserIdByFeed(feed_id) ==
  IF \E i \in 1..Len(users) : users[i].rss_feed_url = <<"rss", feed_id>>
    THEN CHOOSE i \in 1..Len(users) : users[i].rss_feed_url = <<"rss", feed_id>>
    ELSE 0

\* GET /rss/{feed_id}: the lookup is inside the try block.
FeedRssResponse(feed_id, tie) ==
  CatchAll(IF UserIdByFeed(feed_id) = 0 THEN HttpError(404)
           ELSE ServeFeed(UserIdByFeed(feed_id), tie))

HttpUserRss(user_id) ==
  /\ CanStart
  /\ nreq' = nreq + 1
  /\ \E tie \in TieOrders :
       resp' = [kind |-> "user_rss", arg |-> user_id,
                answer |-> UserRssResponse(user_id, tie)]
  /\ now' = now + 1
  /\ UNCHANGED <<users, episodes, logs, pc, cur, sweep, sessions, audio_files>>

HttpFeedRss(feed_id) ==
  /\ CanStart
  /\ nreq' = nreq + 1
  /\ \E tie \in TieOrders :
       resp' = [kind |-> "feed_rss", arg |-> feed_id,
                answer |-> FeedRssResponse(feed_id, tie)]
  /\ now' = now + 1
  /\ UNCHANGED <<users, episodes, logs, pc, cur, sweep, sessions, audio_files>>

\* ------------------------------------------------------ the specification
\* Ids a caller may name: every existing row and one that does not exist.
RequestIds == 1..(Len(users) + 1)

Next ==
  \/ \E u \in RequestIds : DailyStart(u)
  \/ DailyProcessing
  \/ CalendarList
  \/ EventsFetch
  \/ EventsDone
  \/ RecentDocs
  \/ SharedDocs
  \/ DocContent
  \/ ContentDone
  \/ Script
  \/ Audio
  \/ CreateEpisode
  \/ UpdateEpisode
  \/ CompleteLog
  \/ \E u \in RequestIds : WelcomeStart(u)
  \/ \E u \in RequestIds, d \in DocumentInputs : DocumentStart(u, d)
  \/ Return
  \/ SweepStart
  \/ SweepCall
  \/ SweepCollect
  \/ SweepFinish
  \/ \E u \in RequestIds : HttpUserRss(u)
  \/ \E u \in RequestIds : HttpFeedRss(u)

Spec == Init /\ [][Next]_vars

\* ------------------------------------------------ the feed over large tables
\* Episodes beyond the feed limit in the largest table.
FeedExtra == 2
\* Table sizes: small ones and those around the limit.
FeedSizes == (0..3) \cup ((FeedLimit - 1)..(FeedLimit + FeedExtra))
\* Rows that may belong to the other user, and rows that may still lack audio.
OtherSlots == {1, 3, FeedLimit + 1}
SilentSlots == {2, FeedLimit + 1}

\* A table of n episodes as generations leave it: ids ascending, published_at
\* never decreasing with the id (equal for neighbours when `ties`).
FeedTable(n, others, silent, ties) ==
  [i \in 1..n |->
     LET uid == IF i \in others THEN 2 ELSE 1
         name == <<"daily", uid, i>>
     IN [id |-> i, user_id |-> uid,
         audio_url |-> IF i \in silent THEN <<>> ELSE <<"audio_base_url">> \o name,
         audio_file_path |-> IF i \in silent THEN <<>> ELSE <<"audio_files">> \o name,
         duration_seconds |-> IF i \in silent THEN 0 ELSE 120,
         file_size_bytes |-> IF i \in silent THEN 0 ELSE 4096,
         episode_type |-> "daily", source_data |-> <<"json", <<>> >>,
         published_at |-> IF ties THEN (i + 1) \div 2 ELSE i]]

InitFeed ==
  /\ users = << UserRow(1, TRUE), UserRow(2, TRUE) >>
  /\ \E n \in FeedSizes, others \in SUBSET OtherSlots,
        silent \in SUBSET SilentSlots, ties \in BOOLEAN :
       episodes = FeedTable(n, others, silent, ties)
  /\ logs = <<>>
  /\ now = FeedLimit + FeedExtra
  /\ pc = "idle"
  /\ cur = Frame0
  /\ sweep = Sweep0
  /\ resp = NoResp
  /\ nreq = 0
  /\ sessions = {}
  /\ audio_files = {}

NextFeed ==
  \/ \E u \in RequestIds : HttpUserRss(u)
  \/ \E u \in RequestIds : HttpFeedRss(u)

SpecFeed == InitFeed /\ [][NextFeed]_vars

\* ------------------------------------------- main.py, authenticated endpoints
\* The default limit of get_user_episodes.
DefaultEpisodeLimit == 50

\* The caller the bearer token resolves to: a row of the users table.
CurrentUsers == 1..Len(users)

\* A faulty variant of the owner check below: every caller passes.
ForbiddenNever(current_user_id, user_id) == FALSE

\* `if current_user.id != user_id: raise HTTPException(403)`.
Forbidden(current_user_id, user_id) == current_user_id # user_id

\* The answer of a request whose generation is still running.
HttpPending == [raised |-> FALSE, status |-> 0, feed |-> None]

\* GET /users/{user_id}/episodes.
HttpEpisodes(current_user_id, user_id) ==
  /\ CanStart
  /\ nreq' = nreq + 1
  /\ \E tie \in TieOrders :
       resp' = [kind |-> "episodes", caller |-> current_user_id, arg |-> user_id,
                answer |->
                  IF Forbidden(current_user_id, user_id) THEN HttpError(403)
                  ELSE HttpOk(Some(GetUserEpisodes(episodes, user_id,
                                                   DefaultEpisodeLimit, tie)))]
  /\ now' = now + 1
  /\ UNCHANGED <<users, episodes, logs, pc, cur, sweep, sessions, audio_files>>

\* POST /generate-podcast/{user_id}, up to the call of the daily flow.
HttpGeneratePodcast(current_user_id, user_id) ==
  /\ CanStart
  /\ nreq' = nreq + 1
  /\ IF Forbidden(current_user_id, user_id)
       THEN /\ resp' = [kind |-> "generate", caller |-> current_user_id,
                        arg |-> user_id, answer |-> HttpError(403)]
            /\ UNCHANGED <<logs, pc, cur, sessions>>
       ELSE /\ resp' = [kind |-> "generate", caller |-> current_user_id,
                        arg |-> user_id, answer |-> HttpPending]
            /\ DailyEntry(user_id, "http")
  /\ UNCHANGED <<users, episodes, now, sweep, audio_files>>

\* POST /generate-welcome-podcast/{user_id}, up to the call of the welcome
\* flow.
HttpGenerateWelcome(current_user_id, user_id) ==
  /\ CanStart
  /\ nreq' = nreq + 1
  /\ IF Forbidden(current_user_id, user_id)
       THEN /\ resp' = [kind |-> "welcome", caller |-> current_user_id,
                        arg |-> user_id, answer |-> HttpError(403)]
            /\ UNCHANGED <<pc, cur, sessions>>
       ELSE /\ resp' = [kind |-> "welcome", caller |-> current_user_id,
                        arg |-> user_id, answer |-> HttpPending]
            /\ cur' = [Frame0 EXCEPT !.kind = "welcome", !.caller = "http",
                                     !.user_id = user_id, !.logs_before = Len(logs),
                           !.episodes_before = Len(episodes),
                                     !.db = SessionLocal]
            /\ sessions' = sessions \cup {SessionLocal}
            /\ pc' = IF UserExists(user_id) THEN "script" ELSE "done"
  /\ UNCHANGED <<users, episodes, logs, now, sweep, audio_files>>

\* The flow returned to its handler: the episode is answered with 200, None
\* with 500 (raised inside the try block, answered by its handler).
HttpRespond ==
  /\ pc = "done"
  /\ cur.caller = "http"
  /\ resp' = [resp EXCEPT !.answer = IF cur.ret # 0
                                       THEN HttpOk(Some(episodes[cur.ret]))
                                       ELSE HttpError(500)]
  /\ pc' = "idle"
  /\ cur' = Frame0
  /\ now' = now + 1
  /\ sessions' = sessions \ {cur.db}
  /\ UNCHANGED <<users, episodes, logs, sweep, nreq, audio_files>>

NextHttp ==
  \/ \E c \in CurrentUsers, u \in RequestIds : HttpEpisodes(c, u)
  \/ \E c \in CurrentUsers, u \in RequestIds : HttpGeneratePodcast(c, u)
  \/ \E c \in CurrentUsers, u \in RequestIds : HttpGenerateWelcome(c, u)
  \/ DailyProcessing
  \/ CalendarList
  \/ EventsFetch
  \/ EventsDone
  \/ RecentDocs
  \/ SharedDocs
  \/ DocContent
  \/ ContentDone
  \/ Script
  \/ Audio
  \/ CreateEpisode
  \/ UpdateEpisode
  \/ CompleteLog
  \/ HttpRespond

SpecHttp == Init /\ [][NextHttp]_vars

\* ------------------------------------------------ main.py, google_callback
\* Requests in a run of the account specification.
MaxAccountRequests == 3

\* What the identity provider may return: an email (absent: <<>>), an access
\* token and an optional refresh token.
LoginEmails == { <<>>, <<"user", 1>>, <<"user", 2>> }
AccessTokens == {2, 3}
RefreshTokens == { None, Some(2), Some(3) }

\* UserCRUD.get_user_by_email: the id of the row, 0 for None.
UserIdByEmail(table, email) ==
  IF \E i \in 1..Len(table) : table[i].email = email
    THEN CHOOSE i \in 1..Len(table) : table[i].email = email
    ELSE 0

\* UserCRUD.create_user: the row added to the users table (the feed id is a
\* fresh uuid, is_active defaults to True).
CreateUser(table, email, google_access_token, google_refresh_token) ==
  Append(table,
         [id |-> Len(table) + 1, email |-> email,
          rss_feed_url |-> <<"rss", Len(table) + 1>>,
          google_access_token |-> google_access_token,
          google_refresh_token |-> google_refresh_token,
          is_active |-> TRUE])

\* A faulty variant of the update below: the refresh token is assigned
\* whether the login returned one or not.
UpdateUserTokensAlways(table, user_id, access_token, refresh_token) ==
  [i \in 1..Len(table) |->
     IF table[i].id # user_id THEN table[i]
     ELSE [table[i] EXCEPT !.google_access_token = access_token,
                           !.google_refresh_token = refresh_token]]

\* UserCRUD.update_user_tokens: the refresh token is assigned only under
\* `if refresh_token:`, that is when the login returned one.
UpdateUserTokens(table, user_id, access_token, refresh_token) ==
  [i \in 1..Len(table) |->
     IF table[i].id # user_id THEN table[i]
     ELSE [table[i] EXCEPT
             !.google_access_token = access_token,
             !.google_refresh_token = IF refresh_token # None
                                        THEN refresh_token ELSE @]]

CanStartAccount == pc = "idle" /\ ~sweep.active /\ nreq < MaxAccountRequests

\* GET /auth/google/callback. A failed code exchange and a missing email are
\* both answered with 400 by the handler's `except Exception`.
GoogleCallback(outcome, email, access_token, refresh_token) ==
  /\ CanStartAccount
  /\ nreq' = nreq + 1
  /\ now' = now + 1
  /\ LET user_id == UserIdByEmail(users, email)
         request == [kind |-> "login", email |-> email,
                     access_token |-> access_token,
                     refresh_token |-> refresh_token]
     IN IF outcome # "ok" \/ email = <<>>
          THEN /\ resp' = [request EXCEPT !.kind = "login_failed"]
               /\ UNCHANGED <<users, episodes>>
          ELSE IF user_id = 0
            THEN /\ users' = CreateUser(users, email, access_token, refresh_token)
                 /\ episodes' = Append(episodes,
                                       WelcomeEpisode(Len(episodes) + 1, Len(users) + 1))
                 /\ resp' = request
            ELSE /\ users' = UpdateUserTokens(users, user_id, access_token,
                                              refresh_token)
                 /\ resp' = request
                 /\ UNCHANGED episodes
  /\ UNCHANGED <<logs, pc, cur, sweep, sessions, audio_files>>

InitAccounts ==
  /\ users = <<>>
  /\ episodes = <<>>
  /\ logs = <<>>
  /\ now = 0
  /\ pc = "idle"
  /\ cur = Frame0
  /\ sweep = Sweep0
  /\ resp = NoResp
  /\ nreq = 0
  /\ sessions = {}
  /\ audio_files = {}

NextAccounts ==
  \/ \E outcome \in {"ok", "exc"}, email \in LoginEmails,
        access_token \in AccessTokens, refresh_token \in RefreshTokens :
       GoogleCallback(outcome, email, access_token, refresh_token)
  \/ \E u \in RequestIds : WelcomeStart(u)
  \/ \E u \in RequestIds, d \in DocumentInputs : DocumentStart(u, d)
  \/ \E u \in RequestIds : DailyStart(u)
  \/ DailyProcessing
  \/ CalendarList
  \/ EventsFetch
  \/ EventsDone
  \/ RecentDocs
  \/ SharedDocs
  \/ DocContent
  \/ ContentDone
  \/ CompleteLog
  \/ Script
  \/ Audio
  \/ CreateEpisode
  \/ UpdateEpisode
  \/ Return

\* Every request that has started runs to completion: the process does not
\* stop in the middle of a handler.
SpecAccounts == InitAccounts /\ [][NextAccounts]_vars /\ WF_vars(NextAccounts)

\* --------------------------------------- analyze_day_schedule over event lists
\* Timed events in the longest list handed to the analyzer.
MaxEvents == 9
\* Durations of the events and gaps between one event's end and the next
\* one's start, in seconds (a negative gap is an overlap).
EventDurations == {540, 3000, 9000}
EventGaps == {-300, 900, 901, 1800, 1801}
DayStart == 32400

\* The k-th timed event of a day whose durations alternate between d1 and d2
\* and whose gaps alternate between g1 and g2, as the calendar returns it.
RECURSIVE ChainStart(_, _, _, _, _)
ChainStart(k, d1, d2, g1, g2) ==
  IF k = 1 THEN DayStart
  ELSE ChainStart(k - 1, d1, d2, g1, g2)
         + (IF k % 2 = 0 THEN d1 + g1 ELSE d2 + g2)

RawTimed(k, start, duration) ==
  [id |-> <<"event", k>>, start |-> [kind |-> "dateTime", v |-> start],
   end |-> [kind |-> "dateTime", v |-> start + duration], attachments |-> <<>>]

\* An all-day event: date-only start and end.
RawAllDay ==
  [id |-> <<"event", 0>>, start |-> [kind |-> "date", v |-> 0],
   end |-> [kind |-> "date", v |-> 0], attachments |-> <<>>]

RawChain(n, d1, d2, g1, g2) ==
  [k \in 1..n |->
     RawTimed(k, ChainStart(k, d1, d2, g1, g2), IF k % 2 = 1 THEN d1 ELSE d2)]

\* The lists the analyzer is given: a chain, optionally with an all-day event
\* and with a second event that starts with the first one.
DayEvents(n, d1, d2, g1, g2, allday, twin) ==
  ProcessEvents(
    RawChain(n, d1, d2, g1, g2)
      \o (IF allday THEN <<RawAllDay>> ELSE <<>>)
      \o (IF twin /\ n > 0 THEN <<RawTimed(n + 1, DayStart, d1 + d2 + g2)>> ELSE <<>>),
    CalWork)

Reverse(s) == [i \in 1..Len(s) |-> s[Len(s) + 1 - i]]
Rotate(s) == IF s = <<>> THEN s ELSE Append(Tail(s), Head(s))
Orders == {"given", "reversed", "rotated"}
Reorder(s, order) ==
  CASE order = "reversed" -> Reverse(s)
    [] order = "rotated" -> Rotate(s)
    [] OTHER -> s

InitAnalyzer ==
  /\ users = <<>>
  /\ episodes = <<>>
  /\ logs = <<>>
  /\ now = 0
  /\ pc = "idle"
  /\ \E n \in 0..MaxEvents, d1, d2 \in EventDurations, g1, g2 \in EventGaps,
        allday, twin \in BOOLEAN, order \in Orders :
       cur = [Frame0 EXCEPT !.kind = "analysis",
                            !.events = Reorder(DayEvents(n, d1, d2, g1, g2,
                                                         allday, twin), order)]
  /\ sweep = Sweep0
  /\ resp = NoResp
  /\ nreq = 0
  /\ sessions = {}
  /\ audio_files = {}

\* analyze_day_schedule(events), and the same call on the list in another
\* order.
AnalyzeSchedule ==
  /\ pc = "idle"
  /\ cur.kind = "analysis"
  /\ nreq = 0
  /\ \E half \in HalfTies, order \in Orders \ {"given"} :
       resp' = [kind |-> "analysis", events |-> cur.events,
                answer |-> AnalyzeDaySchedule(cur.events, half),
                reordered |-> Reorder(cur.events, order),
                again |-> AnalyzeDaySchedule(Reorder(cur.events, order), half)]
  /\ nreq' = 1
  /\ UNCHANGED <<users, episodes, logs, now, pc, cur, sweep, sessions,
                 audio_files>>

NextAnalyzer == AnalyzeSchedule

SpecAnalyzer == InitAnalyzer /\ [][NextAnalyzer]_vars

\* ------------------------------- _prioritize_documents and the detail loop
\* More Drive files; docC was modified at the same instant as docA.
FileC == [id |-> "docC", modified |-> 100]
FileD == [id |-> "docD", modified |-> 300]
FileE == [id |-> "docE", modified |-> 400]
FileF == [id |-> "docF", modified |-> 500]
\* files().list(orderBy='modifiedTime desc') results: each file once, newest
\* first, files of the same instant in either order.
RecentFileLists ==
  { <<>>, <<FileA>>, <<FileA, FileC>>, <<FileB, FileA>>,
    <<FileF, FileE, FileD, FileB, FileA, FileC>> }
SharedFileLists ==
  { <<>>, <<FileA>>, <<FileC, FileA>>, <<FileB, FileC>>, <<FileF, FileD>> }

\* Attachment URLs: a document link, a spreadsheet link on the same host, a
\* document path on another host, a document link without an id, and the
\* empty string.
DocUrl(id) == <<"https:", "", "docs.google.com", "document", "d", id, "edit">>
SheetUrl(id) == <<"https:", "", "docs.google.com", "spreadsheets", "d", id, "edit">>
ForeignUrl(id) == <<"https:", "", "example.com", "document", "d", id, "edit">>
BareDocUrl == <<"https:", "", "docs.google.com", "document", "d", "">>
EmptyUrl == <<"">>

\* An event of the day with attachments, as the Calendar API returns it.
RawAttached(k, urls) ==
  [id |-> <<"event", k>>,
   start |-> [kind |-> "dateTime", v |-> DayStart + k * 3600],
   end |-> [kind |-> "dateTime", v |-> DayStart + k * 3600 + 1800],
   attachments |-> [i \in 1..Len(urls) |-> [fileUrl |-> urls[i]]]]

AttachedEventLists ==
  { <<>>,
    << RawAttached(1, <<DocUrl("docA")>>) >>,
    << RawAttached(1, <<DocUrl("docA"), SheetUrl("docB")>>),
       RawAttached(2, <<DocUrl("docZ"), DocUrl("docA")>>) >>,
    << RawAttached(1, <<DocUrl("docC"), ForeignUrl("docA"), BareDocUrl, EmptyUrl>>) >>,
    << RawAttached(1, <<DocUrl("docB")>>), RawAttached(2, <<>>) >> }

\* generate_daily_content after the events, the analysis and both Drive
\* lists are in.
InitPrioritizer ==
  /\ users = <<>>
  /\ episodes = <<>>
  /\ logs = <<>>
  /\ now = 0
  /\ pc = "aggregate_shared"
  /\ \E recent \in RecentFileLists, shared \in SharedFileLists,
        raws \in AttachedEventLists :
       cur = [Frame0 EXCEPT
                !.kind = "ranking",
                !.events = ProcessEvents(raws, CalWork),
                !.analysis = Some(AnalyzeDaySchedule(ProcessEvents(raws, CalWork), 0)),
                !.recent = DocInfos(recent),
                !.shared = DocInfos(shared)]
  /\ sweep = Sweep0
  /\ resp = NoResp
  /\ nreq = 0
  /\ sessions = {}
  /\ audio_files = {}

\* _prioritize_documents(recent, shared, events) inside generate_daily_content,
\* and the same call on the three lists in another order.
Prioritize ==
  /\ pc = "aggregate_shared"
  /\ cur.kind = "ranking"
  /\ AfterLists(cur, cur.shared)
  /\ \E order \in Orders \ {"given"} :
       resp' = [kind |-> "ranking", recent |-> cur.recent, shared |-> cur.shared,
                events |-> cur.events,
                ranked |-> PrioritizeDocuments(cur.recent, cur.shared, cur.events),
                again |-> PrioritizeDocuments(Reorder(cur.recent, order),
                                              Reorder(cur.shared, order),
                                              Reorder(cur.events, order))]
  /\ nreq' = 1
  /\ UNCHANGED <<users, episodes, now, sweep, audio_files>>
  /\ Finally

NextPrioritizer ==
  \/ Prioritize
  \/ DocContent
  \/ ContentDone

SpecPrioritizer == InitPrioritizer /\ [][NextPrioritizer]_vars

\* ----------------------------------------- _process_individual_documents
\* The detail loop over the ranked documents of a day without events, with
\* document texts around the preview limit.
InitDetails ==
  /\ users = <<>>
  /\ episodes = <<>>
  /\ logs = <<>>
  /\ now = 0
  /\ pc = "aggregate_documents"
  /\ \E recent \in {<<FileA>>, <<FileA, FileC>>, <<FileB, FileA>>} :
       LET ranked == PrioritizeDocuments(DocInfos(recent), <<>>, <<>>)
       IN cur = [Frame0 EXCEPT
                   !.kind = "details",
                   !.analysis = Some(AnalyzeDaySchedule(<<>>, 0)),
                   !.recent = DocInfos(recent),
                   !.ranked = ranked,
                   !.todo = Take(ranked, TopDocuments)]
  /\ sweep = Sweep0
  /\ resp = NoResp
  /\ nreq = 0
  /\ sessions = {}
  /\ audio_files = {}

NextDetails ==
  \/ DocContent
  \/ ContentDone

SpecDetails == InitDetails /\ [][NextDetails]_vars

\* ------------------------------------------------------- get_today_events
\* generate_daily_content about to call get_today_events, for an account
\* with several calendars.
InitCalendars ==
  /\ users = <<>>
  /\ episodes = <<>>
  /\ logs = <<>>
  /\ now = 0
  /\ pc = "aggregate_calendars"
  /\ cur = [Frame0 EXCEPT !.kind = "calendars"]
  /\ sweep = Sweep0
  /\ resp = NoResp
  /\ nreq = 0
  /\ sessions = {}
  /\ audio_files = {}

NextCalendars ==
  \/ CalendarList
  \/ EventsFetch
  \/ EventsDone

SpecCalendars == InitCalendars /\ [][NextCalendars]_vars

\* ------------------------------------------- daily generation, all callers
\* The daily flow called directly, by its HTTP handler with the request's
\* session, and by the sweep.
NextSessions ==
  \/ \E u \in RequestIds : DailyStart(u)
  \/ \E c \in CurrentUsers : HttpGeneratePodcast(c, c)
  \/ SweepStart
  \/ SweepCall
  \/ SweepCollect
  \/ SweepFinish
  \/ DailyProcessing
  \/ CalendarList
  \/ EventsFetch
  \/ EventsDone
  \/ RecentDocs
  \/ SharedDocs
  \/ DocContent
  \/ ContentDone
  \/ Script
  \/ Audio
  \/ CreateEpisode
  \/ UpdateEpisode
  \/ CompleteLog
  \/ Return
  \/ HttpRespond

SpecSessions == Init /\ [][NextSessions]_vars

\* ------------------------------------------ daily generations over two days
\* The daily flow, called directly and by the sweep, with the first call at
\* any time of the first day: a second call falls on the same day or on the
\* next one.
InitDaily ==
  /\ \E a2 \in BOOLEAN : users = << UserRow(1, TRUE), UserRow(2, a2) >>
  /\ now \in 0..(TicksPerDay - 1)
  /\ episodes = << WelcomeEpisode(1, 1), WelcomeEpisode(2, 2) >>
  /\ logs = <<>>
  /\ pc = "idle"
  /\ cur = Frame0
  /\ sweep = Sweep0
  /\ resp = NoResp
  /\ nreq = 0
  /\ sessions = {}
  /\ audio_files = {}

NextDaily ==
  \/ \E u \in RequestIds : DailyStart(u)
  \/ SweepStart
  \/ SweepCall
  \/ SweepCollect
  \/ SweepFinish
  \/ DailyProcessing
  \/ CalendarList
  \/ EventsFetch
  \/ EventsDone
  \/ RecentDocs
  \/ SharedDocs
  \/ DocContent
  \/ ContentDone
  \/ Script
  \/ Audio
  \/ CreateEpisode
  \/ UpdateEpisode
  \/ CompleteLog
  \/ Return

SpecDaily == InitDaily /\ [][NextDaily]_vars

\* ------------------------------------------------------------ properties
TerminalStatus == {"completed", "failed"}
Last(seq) == seq[Len(seq)]
\* The daily flow has returned for a user that exists.
DailyReturned == pc = "done" /\ cur.kind = "daily" /\ UserExists(cur.user_id)
CallsOf(api) == {i \in 1..Len(cur.calls) : cur.calls[i].api = api}
FailedCalls == {i \in 1..Len(cur.calls) : cur.calls[i].outcome # "ok"}
IsFeedResponse == resp.kind \in {"user_rss", "feed_rss"}

\* C1 (state part): a daily call on an existing user has made no external
\* call while its log is pending, and when it returns it has created exactly
\* one log, which is completed or failed.
C1_State ==
  /\ (cur.kind = "daily" /\ cur.log_id # 0 /\ cur.calls # <<>>)
       => logs[cur.log_id].status # "pending"
  /\ DailyReturned =>
       /\ Len(logs) = cur.logs_before + 1
       /\ cur.log_id = Len(logs)
       /\ logs[cur.log_id].user_id = cur.user_id
       /\ logs[cur.log_id].status \in TerminalStatus

\* C1 (step part): a log is born pending, a status only ever moves
\* pending -> processing -> completed | failed, and an external call is made
\* only while the log of the running daily call is processing.
C1_Step ==
  /\ \A i \in 1..Len(logs') :
       IF i <= Len(logs)
         THEN \/ logs'[i].status = logs[i].status
              \/ <<logs[i].status, logs'[i].status>> \in
                   { <<"pending", "processing">>, <<"processing", "completed">>,
                     <<"processing", "failed">> }
         ELSE logs'[i].status = "pending"
  /\ (cur.kind = "daily" /\ cur'.kind = "daily" /\ Len(cur'.calls) > Len(cur.calls))
       => logs[cur.log_id].status = "processing"

\* C1: every daily generation for an existing user creates exactly one log in
\* pending, advances it to processing before any external call, and has it in
\* completed or failed when it returns; no other status sequence occurs.
C1_LogLifecycle == []C1_State /\ [][C1_Step]_vars

C1_Witness ==
  /\ DailyReturned
  /\ cur.calls # <<>>
  /\ logs[cur.log_id].status = "failed"
  /\ \E i \in 1..Len(logs) : logs[i].status = "completed"

\* C2: when the user exists and every external call succeeds, the daily
\* generation ends with its log completed, episodes_generated = 1 and a new
\* daily episode with audio and a serialized source-data snapshot.
C2_AllCallsSucceedCompletes ==
  (DailyReturned /\ FailedCalls = {})
    => /\ logs[cur.log_id].status = "completed"
       /\ logs[cur.log_id].episodes_generated = 1
       /\ cur.ret # 0
       /\ episodes[cur.ret].episode_type = "daily"
       /\ episodes[cur.ret].audio_url # <<>>
       /\ episodes[cur.ret].audio_file_path # <<>>
       /\ episodes[cur.ret].source_data # <<>>

\* C3: a failed speech call ends the daily attempt with its log failed, a
\* non-empty error message, episodes_generated = 0 and no audio, whatever
\* the message of the failure.
C3_SpeechFailureRecorded ==
  (DailyReturned /\ cur.calls # <<>> /\ Last(cur.calls).api = "tts"
     /\ Last(cur.calls).outcome = "exc")
    => /\ logs[cur.log_id].status = "failed"
       /\ Truthy(logs[cur.log_id].error_message)
       /\ logs[cur.log_id].episodes_generated = 0
       /\ cur.ret = 0
       /\ cur.audio_info = <<>>

C4_State ==
  /\ cur.kind = "document" => cur.log_id = 0 /\ Len(logs) = cur.logs_before
  /\ (pc = "done" /\ cur.kind = "document" /\ cur.ret # 0)
       => /\ cur.ret = Len(episodes)
          /\ episodes[cur.ret].episode_type = "document"
          /\ episodes[cur.ret].user_id = cur.user_id
          /\ episodes[cur.ret].audio_url # <<>>
  /\ (DailyReturned /\ cur.ret # 0)
       => /\ logs[cur.log_id].status = "completed"
          /\ logs[cur.log_id].episodes_generated = 1

C5_FeedOmitsSilentEpisodes ==
  (IsFeedResponse /\ ~resp.answer.raised) =>
    LET feed == resp.answer.feed[1]
        entries == feed.xml.entries
    IN /\ \A i \in 1..Len(feed.episodes) :
            (feed.episodes[i].audio_url # <<>>)
              <=> (\E k \in 1..Len(entries) :
                     /\ entries[k].id = <<"episode", feed.episodes[i].id>>
                     /\ entries[k].enclosure.url = feed.episodes[i].audio_url)
       /\ Len(entries) =
            Cardinality({i \in 1..Len(feed.episodes) : feed.episodes[i].audio_url # <<>>})

C5_Witness ==
  /\ IsFeedResponse /\ ~resp.answer.raised
  /\ \E i, j \in 1..Len(resp.answer.feed[1].episodes) :
       /\ resp.answer.feed[1].episodes[i].audio_url = <<>>
       /\ resp.answer.feed[1].episodes[j].audio_url # <<>>
  /\ resp.answer.feed[1].xml.entries # <<>>

\* C6: the episode list of a user's feed holds only that user's episodes, no
\* more than 50 of them and all of them when the user has fewer, in
\* descending published_at order, and no omitted episode is newer than a
\* listed one; the feed has at most 50 entries, all of that user's episodes.
C6_FeedEpisodeList ==
  (IsFeedResponse /\ ~resp.answer.raised) =>
    LET eps == resp.answer.feed[1].episodes
        entries == resp.answer.feed[1].xml.entries
        mine == {i \in 1..Len(episodes) : episodes[i].user_id = resp.arg}
        listed == {eps[k].id : k \in 1..Len(eps)}
    IN /\ Len(eps) = Min(FeedLimit, Cardinality(mine))
       /\ Cardinality(listed) = Len(eps)
       /\ listed \subseteq mine
       /\ \A k \in 1..Len(eps) : eps[k] = episodes[eps[k].id]
       /\ \A k \in 1..(Len(eps) - 1) : eps[k].published_at >= eps[k + 1].published_at
       /\ \A i \in mine \ listed : \A k \in 1..Len(eps) :
            episodes[i].published_at <= eps[k].published_at
       /\ Len(entries) <= FeedLimit
       /\ \A k \in 1..Len(entries) :
            \E i \in mine : entries[k].id = <<"episode", i>>

C6_Witness ==
  /\ IsFeedResponse /\ ~resp.answer.raised
  /\ Len(resp.answer.feed[1].episodes) = FeedLimit
  /\ Cardinality({i \in 1..Len(episodes) : episodes[i].user_id = resp.arg}) > FeedLimit
  /\ \E i \in 1..Len(episodes) : episodes[i].user_id # resp.arg
  /\ resp.answer.feed[1].episodes[FeedLimit].published_at =
       resp.answer.feed[1].episodes[FeedLimit - 1].published_at

\* C7: the sweep attempts the daily generation once for every active user
\* and for no inactive one, whatever fails, and its counts satisfy
\* total_users = successful + failed with successful the number of episodes
\* produced.
C7_SweepCounts ==
  /\ sweep.active =>
       \A k \in 1..Len(sweep.attempted) : users[sweep.attempted[k]].is_active
  /\ resp.kind = "sweep" =>
       /\ \A u \in 1..Len(users) :
            Cardinality({k \in 1..Len(resp.attempted) : resp.attempted[k] = u})
              = IF users[u].is_active THEN 1 ELSE 0
       /\ resp.total_users = Len(resp.attempted)
       /\ resp.total_users = resp.successful + resp.failed
       /\ resp.successful = Len(episodes) - resp.episodes_before
       /\ resp.failed = Len(resp.errors)
       /\ \A i \in (resp.episodes_before + 1)..Len(episodes) :
            /\ episodes[i].episode_type = "daily"
            /\ episodes[i].audio_url # <<>>
            /\ \E k \in 1..Len(resp.attempted) : resp.attempted[k] = episodes[i].user_id
            /\ \A j \in (resp.episodes_before + 1)..Len(episodes) :
                 episodes[j].user_id = episodes[i].user_id => j = i

C7_Witness ==
  /\ resp.kind = "sweep"
  /\ resp.errors = <<1>>
  /\ resp.attempted = <<1, 2>>
  /\ resp.successful = 1

LlmFailed == \E i \in CallsOf("llm") : cur.calls[i].outcome = "exc"

\* C8: a failed language-model call is answered with the local template,
\* without raising and without a second call; the attempt goes on to the
\* audio step and ends as the audio step and the snapshot decide: a returned
\* episode (and a completed log in the daily flow) when they succeed, and
\* never a failed log for the language-model failure alone.
C8_LanguageFailureMasked ==
  /\ Cardinality(CallsOf("llm")) <= 1
  /\ (cur.calls # <<>> /\ Last(cur.calls).api = "llm")
       => /\ pc = "audio"
          /\ cur.error = None
          /\ cur.script # <<>>
          /\ Last(cur.calls).outcome = "exc"
               => cur.script = Some(FallbackScript(cur.kind))
  /\ (pc = "done" /\ LlmFailed)
       => /\ Last(cur.calls).api = "tts"
          /\ (Last(cur.calls).outcome = "ok" /\ ~SourceData(cur).raised)
               => /\ cur.ret # 0
                  /\ episodes[cur.ret].audio_url # <<>>
                  /\ cur.kind = "daily"
                       => /\ logs[cur.log_id].status = "completed"
                          /\ logs[cur.log_id].episodes_generated = 1
          /\ (cur.kind = "daily" /\ logs[cur.log_id].status = "failed")
               => \/ Last(cur.calls).outcome = "exc"
                  \/ cur.error = Some(TypeErrorText)

C8_Witness ==
  /\ DailyReturned
  /\ LlmFailed
  /\ logs[cur.log_id].status = "completed"
  /\ cur.script = Some(FallbackScript("daily"))

FatalCalls ==
  {i \in FailedCalls :
     \/ cur.calls[i].api = "tts"
     \/ /\ cur.calls[i].api \in {"calendar.list", "events.list", "drive.recent",
                                 "drive.shared"}
        /\ cur.calls[i].outcome = "exc"}

C10_UnknownIdIs404 ==
  (IsFeedResponse /\ resp.arg \notin 1..Len(users))
    => resp.answer.raised /\ resp.answer.status = 404

HttpKinds == {"episodes", "generate", "welcome"}
ForbiddenRequest(r) == r.kind \in HttpKinds /\ r.caller # r.arg

\* C11 (step part): the step that takes a request whose caller is not the
\* owner named in the path starts no flow, makes no external call and leaves
\* the users, episodes and logs tables as they were.
C11_Step ==
  ForbiddenRequest(resp')
    => /\ users' = users /\ episodes' = episodes /\ logs' = logs
       /\ pc' = "idle" /\ pc = "idle"
       /\ cur' = Frame0 /\ cur = Frame0

\* C11: when the caller's id differs from the user id in the path, the
\* episode-list, generate-podcast and generate-welcome-podcast endpoints
\* answer 403 and trigger nothing: no external call, and no log or episode
\* row created or changed.
C11_ForbiddenTriggersNothing ==
  /\ [](ForbiddenRequest(resp) => resp.answer = HttpError(403))
  /\ [][C11_Step]_vars

C11_Witness ==
  /\ resp.kind = "generate"
  /\ resp.caller # resp.arg
  /\ UserExists(resp.arg)
  /\ resp.answer.status = 403
  /\ \E i \in 1..Len(logs) : logs[i].status = "completed"

LoggedIn == resp.kind = "login"
LoginRow == users[UserIdByEmail(users, resp.email)]
OneRowPerEmail ==
  \A i, j \in 1..Len(users) : users[i].email = users[j].email => i = j

\* C12 as stated: after a successful login there is one row for its email,
\* and that row holds the access token and the refresh token the login
\* returned.
C12_LoginOverwritesTokenPair ==
  LoggedIn
    => /\ OneRowPerEmail
       /\ UserIdByEmail(users, resp.email) # 0
       /\ LoginRow.google_access_token = resp.access_token
       /\ LoginRow.google_refresh_token = resp.refresh_token

C12_State ==
  /\ OneRowPerEmail
  /\ LoggedIn
       => /\ UserIdByEmail(users, resp.email) # 0
          /\ LoginRow.google_access_token = resp.access_token
          /\ resp.refresh_token # None
               => LoginRow.google_refresh_token = resp.refresh_token

C12_Step ==
  (resp'.kind = "login" /\ nreq' # nreq)
    => LET old == UserIdByEmail(users, resp'.email)
       IN IF old = 0
            THEN /\ Len(users') = Len(users) + 1
                 /\ users'[Len(users')].email = resp'.email
                 /\ users'[Len(users')].google_refresh_token = resp'.refresh_token
                 /\ \A i \in 1..Len(users) : users'[i] = users[i]
            ELSE /\ Len(users') = Len(users)
                 /\ \A i \in 1..Len(users) : i # old => users'[i] = users[i]
                 /\ users'[old].id = users[old].id
                 /\ users'[old].email = users[old].email
                 /\ resp'.refresh_token = None
                      => users'[old].google_refresh_token =
                           users[old].google_refresh_token

\* C12 (amended): there is at most one user row per email; the first login
\* for an email creates the row with the returned tokens; every later login
\* for it creates no row and overwrites the access token, and overwrites the
\* refresh token only when the login returned one, keeping the stored one
\* otherwise.
C12_LoginUpsert == []C12_State /\ [][C12_Step]_vars

C12_Witness ==
  /\ LoggedIn
  /\ Len(users) = 2
  /\ resp.refresh_token = None
  /\ LoginRow.google_refresh_token # None
  /\ nreq = 3

\* Rows the episodes table can hold in a run of the account specification.
EpisodeSlots == 1..(2 * MaxAccountRequests)
EpisodeSilent(i) == i <= Len(episodes) /\ episodes[i].audio_url = <<>>
EpisodeSettled(i) == i > Len(episodes) \/ episodes[i].audio_url # <<>>

\* C13: every episode row that has empty audio fields eventually has audio
\* or is removed, in every run where the started requests run to completion.
C13_EpisodeEventuallyHasAudio ==
  \A i \in EpisodeSlots : EpisodeSilent(i) ~> EpisodeSettled(i)

Analyzed == resp.kind = "analysis"
CanonicalZero ==
  [total_events |-> 0, busy_hours |-> 0, free_time_blocks |-> <<>>,
   meeting_density |-> "light", longest_meeting |-> None,
   back_to_back_meetings |-> 0]

\* C14: the density depends only on the number of events: light for 0 to 3,
\* moderate for 4 to 7, heavy for 8 or more; the empty list gives the
\* canonical zero result with density light.
C14_DensityByCount ==
  Analyzed =>
    LET n == Len(resp.events) IN
    /\ resp.answer.meeting_density =
         (IF n <= 3 THEN "light" ELSE IF n <= 7 THEN "moderate" ELSE "heavy")
    /\ n = 0 => resp.answer = CanonicalZero
    /\ n > 0 => resp.answer.longest_meeting # None

C14_Witness ==
  /\ Analyzed
  /\ Len(resp.events) = 8
  /\ resp.answer.meeting_density = "heavy"
  /\ resp.answer.total_events = 8

\* Start-time order of the analyzed list: by start, equal starts in the order
\* of the list. EventPairs are the pairs adjacent in that order.
StartsBefore(i, j) ==
  \/ resp.events[i].start_time[2] < resp.events[j].start_time[2]
  \/ /\ resp.events[i].start_time[2] = resp.events[j].start_time[2]
     /\ i < j
EventPairs ==
  {p \in (1..Len(resp.events)) \X (1..Len(resp.events)) :
     /\ StartsBefore(p[1], p[2])
     /\ ~\E k \in 1..Len(resp.events) : StartsBefore(p[1], k) /\ StartsBefore(k, p[2])}
PairGap(p) == resp.events[p[2]].start_time[2] - resp.events[p[1]].end_time[2]

RECURSIVE TimedSeconds(_)
TimedSeconds(idx) ==
  IF idx = {} THEN 0
  ELSE LET i == CHOOSE i \in idx : TRUE
       IN (IF resp.events[i].is_all_day THEN 0
           ELSE resp.events[i].end_time[2] - resp.events[i].start_time[2])
          + TimedSeconds(idx \ {i})
AnalyzedSeconds == TimedSeconds(1..Len(resp.events))
DistinctStarts ==
  \A i, j \in 1..Len(resp.events) :
    resp.events[i].start_time = resp.events[j].start_time => i = j

\* C16 as stated: total_events is N, busy_hours is the sum of the durations
\* of the events that are not all-day, and the result is the same for the list
\* in another order.
C16_BusyHoursIsSum ==
  Analyzed
    => /\ resp.answer.total_events = Len(resp.events)
       /\ resp.answer.busy_hours * 360 = AnalyzedSeconds
       /\ resp.again = resp.answer

\* C16 (amended): total_events is N, all-day events included; busy_hours is
\* the sum of the durations of the events that are not all-day, rounded to
\* one decimal of an hour; and for a list whose start times are pairwise
\* distinct the result does not depend on the order of the list.
C16_BusyHoursRounded ==
  Analyzed
    => /\ resp.answer.total_events = Len(resp.events)
       /\ resp.again.total_events = Len(resp.events)
       /\ resp.answer.busy_hours * 360 - AnalyzedSeconds \in -180..180
       /\ resp.again.busy_hours * 360 - AnalyzedSeconds \in -180..180
       /\ DistinctStarts => resp.again = resp.answer

C16_Witness ==
  /\ Analyzed
  /\ Len(resp.events) >= 4
  /\ \E i \in 1..Len(resp.events) : resp.events[i].is_all_day
  /\ AnalyzedSeconds % 360 \notin {0, 180}
  /\ DistinctStarts
  /\ resp.reordered # resp.events
  /\ resp.answer.free_time_blocks # <<>>

RankedOnce == resp.kind = "ranking"
InRecent(id) == \E i \in 1..Len(resp.recent) : resp.recent[i].id = id
InShared(id) == \E i \in 1..Len(resp.shared) : resp.shared[i].id = id
\* The attachments of the ranked events that are document links to id.
LinksTo(id) ==
  {p \in (1..Len(resp.events)) \X (1..4) :
     /\ p[2] <= Len(resp.events[p[1]].attachments)
     /\ resp.events[p[1]].attachments[p[2]].fileUrl = DocUrl(id)}
ListScore(id) == (IF InRecent(id) THEN 1 ELSE 0) + (IF InShared(id) THEN 2 ELSE 0)
ListTags(id) ==
  (IF InRecent(id) THEN <<"recent">> ELSE <<>>)
    \o (IF InShared(id) THEN <<"shared">> ELSE <<>>)

\* C17: a document in the recent and in the shared list has score 3 and
\* sources recent, shared in that order; one only in recent has 1 and recent,
\* one only in shared has 2 and shared; attachment boosts come on top of
\* these, after them.
C17_ScoresAdd ==
  RankedOnce =>
    \A i \in 1..Len(resp.ranked) :
      LET d == resp.ranked[i]
          k == Cardinality(LinksTo(d.id))
      IN /\ d.priority_score = ListScore(d.id) + 3 * k
         /\ Take(d.sources, Len(ListTags(d.id))) = ListTags(d.id)
         /\ k = 0 =>
              /\ (InRecent(d.id) /\ InShared(d.id))
                   => d.priority_score = 3 /\ d.sources = <<"recent", "shared">>
              /\ (InRecent(d.id) /\ ~InShared(d.id))
                   => d.priority_score = 1 /\ d.sources = <<"recent">>
              /\ (~InRecent(d.id) /\ InShared(d.id))
                   => d.priority_score = 2 /\ d.sources = <<"shared">>

C17_Witness ==
  /\ RankedOnce
  /\ resp.events = <<>>
  /\ \E i, j, k \in 1..Len(resp.ranked) :
       /\ InRecent(resp.ranked[i].id) /\ InShared(resp.ranked[i].id)
       /\ resp.ranked[i].sources = <<"recent", "shared">>
       /\ InRecent(resp.ranked[j].id) /\ ~InShared(resp.ranked[j].id)
       /\ ~InRecent(resp.ranked[k].id) /\ InShared(resp.ranked[k].id)

RankedIds == {resp.ranked[i].id : i \in 1..Len(resp.ranked)}
ListedIds ==
  {resp.recent[i].id : i \in 1..Len(resp.recent)}
    \cup {resp.shared[i].id : i \in 1..Len(resp.shared)}
AttachmentTags(d) ==
  Cardinality({j \in 1..Len(d.sources) : d.sources[j] = "calendar_attachment"})
AllAttachments ==
  {resp.events[p[1]].attachments[p[2]].fileUrl :
     p \in {q \in (1..Len(resp.events)) \X (1..4) :
              q[2] <= Len(resp.events[q[1]].attachments)}}

\* C18: the id after the path marker of a document link is extracted; each
\* attachment linking to a listed document adds 3 to its score and one
\* calendar_attachment tag, and an attachment linking to an unlisted document
\* adds nothing: the ranked output holds exactly the listed ids, each once.
C18_AttachmentsBoostListedOnly ==
  RankedOnce =>
    /\ RankedIds = ListedIds
    /\ Len(resp.ranked) = Cardinality(ListedIds)
    /\ \A url \in AllAttachments :
         /\ (\E id \in {"docA", "docB", "docC", "docZ"} : url = DocUrl(id))
              => IsDocsUrl(url) /\ ExtractDocId(url) = Some(url[6])
         /\ url \in {BareDocUrl, EmptyUrl, SheetUrl("docB"), ForeignUrl("docA")}
              => ~(IsDocsUrl(url) /\ Truthy(ExtractDocId(url)))
    /\ \A i \in 1..Len(resp.ranked) :
         /\ AttachmentTags(resp.ranked[i]) = Cardinality(LinksTo(resp.ranked[i].id))
         /\ resp.ranked[i].priority_score
              = ListScore(resp.ranked[i].id) + 3 * AttachmentTags(resp.ranked[i])

C18_Witness ==
  /\ RankedOnce
  /\ DocUrl("docZ") \in AllAttachments
  /\ "docZ" \notin RankedIds
  /\ \E i \in 1..Len(resp.ranked) :
       /\ resp.ranked[i].id = "docA"
       /\ resp.ranked[i].priority_score = 9
       /\ resp.ranked[i].sources
            = <<"recent", "shared", "calendar_attachment", "calendar_attachment">>

\* C19: the ranked list is in descending order of (priority_score,
\* modified_time), and the same lists in another order give the same ranked
\* list.
C19_OrderIsPureFunctionOfKey ==
  RankedOnce =>
    /\ \A i \in 1..(Len(resp.ranked) - 1) :
         ~KeyGreater(resp.ranked[i + 1], resp.ranked[i])
    /\ resp.again = resp.ranked

\* C20: when generate_daily_content returns, the detail list has one record
\* for each of the first five ranked documents, in rank order.
C20_EveryTopDocumentHasRecord ==
  (cur.kind = "ranking" /\ pc = "script") =>
    LET details == cur.content[1].individual_documents
    IN /\ Len(details) = Min(5, Len(cur.ranked))
       /\ \A i \in 1..Len(details) : details[i].id = cur.ranked[i].id

\* C21: every detail record has a content preview of at most 500 characters.
C21_PreviewAtMost500 ==
  \A i \in 1..Len(cur.individual) :
    PreviewChars(cur.individual[i].content_preview) <= 500

EventCalls == {i \in 1..Len(cur.calls) : cur.calls[i].api = "events.list"}
FetchedCalendars ==
  {cur.calls[i].arg : i \in {j \in EventCalls : cur.calls[j].outcome = "ok"}}

\* C22: a calendar whose event fetch fails is skipped: the fetch of the
\* day's events is never aborted, hidden and unselected calendars are never
\* queried, and the events returned are those of the calendars whose fetch
\* succeeded, sorted by start time.
C22_FailedCalendarIsSkipped ==
  cur.kind = "calendars" =>
    /\ (\A i \in FailedCalls : i \in EventCalls) => (cur.error = None /\ pc # "done")
    /\ \A i \in EventCalls : cur.calls[i].arg \notin {"hidden", "unselected"}
    /\ pc = "aggregate_recent" =>
         /\ \A i \in 1..(Len(cur.events) - 1) :
              cur.events[i].start_time[2] <= cur.events[i + 1].start_time[2]
         /\ \A i \in 1..Len(cur.events) : cur.events[i].calendar \in FetchedCalendars
         /\ "home" \in FetchedCalendars
              => \E i \in 1..Len(cur.events) : cur.events[i].calendar = "home"

\* C23: for a non-empty event list the calendar summary is produced, its type
\* is busy_day, moderate_day or light_day for density heavy, moderate or
\* light, and its highlights name the longest meeting exactly when that
\* meeting lasts more than two hours.
C23_SummaryForNonEmptyDay ==
  (cur.kind = "ranking" /\ nreq = 1 /\ cur.events # <<>>) =>
    /\ cur.error = None
    /\ pc # "done"
    /\ pc = "script" =>
         LET summary == cur.content[1].calendar_summary
             analysis == cur.analysis[1]
         IN /\ summary.type =
                 (CASE analysis.meeting_density = "heavy" -> "busy_day"
                    [] analysis.meeting_density = "moderate" -> "moderate_day"
                    [] OTHER -> "light_day")
            /\ (\E i \in 1..Len(summary.key_highlights) :
                  summary.key_highlights[i] = "long_meeting")
                 <=> analysis.longest_meeting[1].duration_seconds > 2 * 3600

EmptyDay ==
  /\ cur.kind = "ranking"
  /\ pc = "script"
  /\ cur.events = <<>>
  /\ cur.recent = <<>>
  /\ cur.shared = <<>>

\* C24: with no events and no recent or shared documents the content
\* returned has a light_day calendar summary without highlights, a document
\* summary with total_documents 0 and no detail record.
C24_EmptyDayContent ==
  EmptyDay =>
    /\ cur.content # None
    /\ cur.content[1].calendar_summary.type = "light_day"
    /\ cur.content[1].calendar_summary.key_highlights = <<>>
    /\ cur.content[1].documents_summary.total_documents = 0
    /\ cur.content[1].individual_documents = <<>>

C24_Witness ==
  /\ EmptyDay
  /\ cur.content # None
  /\ cur.calls = <<>>
  /\ cur.error = None

\* C25: no provenance tag appears twice in the sources of a ranked document,
\* and its score holds the contribution of each tag at most once.
C25_SourcesSetLike ==
  RankedOnce =>
    \A i \in 1..Len(resp.ranked) :
      LET d == resp.ranked[i]
          Contribution(tag) ==
            CASE tag = "recent" -> 1 [] tag = "shared" -> 2 [] OTHER -> 3
          Has(tag) == \E j \in 1..Len(d.sources) : d.sources[j] = tag
      IN /\ \A j, k \in 1..Len(d.sources) : d.sources[j] = d.sources[k] => j = k
         /\ d.priority_score
              = (IF Has("recent") THEN Contribution("recent") ELSE 0)
                + (IF Has("shared") THEN Contribution("shared") ELSE 0)
                + (IF Has("calendar_attachment")
                     THEN Contribution("calendar_attachment") ELSE 0)

C26_State ==
  /\ cur.kind = "daily" =>
       /\ cur.should_close_db <=> cur.caller # "http"
       /\ pc \notin {"idle", "done"} => cur.db \in sessions
       /\ pc = "done" => (cur.db \in sessions <=> cur.caller = "http")
       /\ cur.caller = "sweep" => (sweep.db \in sessions /\ cur.db # sweep.db)
  /\ sweep.active => sweep.db \in sessions
  /\ (pc = "idle" /\ ~sweep.active) => sessions = {}

C26_Step ==
  (logs' # logs \/ episodes' # episodes) => cur'.db \in sessions \cup sessions'

\* C26: a daily call without an injected session opens its own and has
\* closed it whenever it has returned, whatever the outcome; an injected
\* session is the one every write goes through and is still open when the
\* call has returned; in the sweep each per-user call has its own session,
\* different from the sweep's, which stays open throughout the sweep.
C26_SessionDiscipline == []C26_State /\ [][C26_Step]_vars

C26_Witness ==
  /\ sweep.active
  /\ cur.kind = "daily"
  /\ cur.caller = "sweep"
  /\ pc = "done"
  /\ cur.ret # 0
  /\ cur.db \notin sessions
  /\ sessions = {sweep.db}
  /\ sweep.attempted # <<>>

\* The rows a generation flow created: all but the rows create_user inserted,
\* which are the first ones, one for each user.
FlowRows == {i \in 1..Len(episodes) : i > Len(users)}
Rendered(f) ==
  /\ f.script # None
  /\ f.audio_info # None
  /\ \E file \in audio_files : file.path = f.audio_info[1].file_path

C27_State ==
  /\ \A i \in FlowRows :
       episodes[i].audio_url = <<>> => (pc = "update_episode" /\ cur.episode_id = i)
  /\ cur.episode_id # 0 => Rendered(cur)

C27_Step ==
  /\ episodes' # episodes => pc \in {"create_episode", "update_episode"}
  /\ Len(episodes') > Len(episodes) => (pc = "create_episode" /\ Rendered(cur))

\* C27: in the three flows the script and the audio exist before the episode
\* row is created; a row created by a flow has empty audio only between
\* create_episode and update_episode_audio of its own call; and no step
\* before create_episode, failing or not, changes the episode rows, although
\* the audio file may be on disk by then.
C27_EpisodeAfterRendering == []C27_State /\ [][C27_Step]_vars

C27_Witness ==
  /\ pc = "done"
  /\ cur.kind = "document"
  /\ cur.error = Some(TypeErrorText)
  /\ cur.episode_id = 0
  /\ Rendered(cur)
  /\ FlowRows = {}

C28_State ==
  /\ cur.episode_id # 0 => cur.episode_id > cur.episodes_before
  /\ (pc = "done" /\ cur.kind = "welcome" /\ cur.ret # 0) =>
       /\ episodes[cur.ret].episode_type = "welcome"
       /\ episodes[cur.ret].audio_url # <<>>
       /\ \E i \in 1..cur.episodes_before :
            /\ episodes[i].user_id = cur.user_id
            /\ episodes[i].episode_type = "welcome"
            /\ episodes[i].audio_url = <<>>

C28_Step ==
  /\ Len(episodes') >= Len(episodes)
  /\ \A i \in 1..Len(episodes) :
       episodes'[i] # episodes[i]
         => /\ pc = "update_episode"
            /\ i = cur.episode_id
            /\ i > cur.episodes_before

C29_State ==
  \A i \in 1..Len(logs) :
    /\ logs[i].status \in {"pending", "processing", "completed", "failed"}
    /\ (logs[i].completed_at # None) <=> (logs[i].status \in TerminalStatus)
    /\ (logs[i].episodes_generated = 1) <=> (logs[i].status = "completed")
    /\ logs[i].episodes_generated \in {0, 1}
    /\ (logs[i].error_message # None) => (logs[i].status = "failed")

C29_Step ==
  /\ Len(logs') >= Len(logs)
  /\ \A i \in 1..Len(logs) :
       logs'[i] # logs[i]
         => /\ logs[i].status \notin TerminalStatus
            /\ i = cur.log_id
            /\ i > cur.logs_before

\* C29: in every state of the log table, completed_at is set exactly for the
\* logs in completed or failed, episodes_generated is 1 exactly for the logs
\* in completed and 0 for the others, and error_message is set only for
\* failed logs; a log in completed or failed never changes again, and an
\* attempt changes no log that existed when it started.
C29_LogInvariants == []C29_State /\ [][C29_Step]_vars

C29_Witness ==
  /\ Len(logs) >= 2
  /\ logs[1].status = "failed"
  /\ logs[1].error_message # None
  /\ logs[2].user_id = logs[1].user_id
  /\ logs[2].status = "completed"
  /\ logs[2].completed_at # logs[1].completed_at

\* The daily episodes that carry audio, and the day each was generated for:
\* the clock does not move while a call runs, so the day of published_at is
\* the target date of the call.
DailyRows ==
  {i \in 1..Len(episodes) :
     episodes[i].episode_type = "daily" /\ episodes[i].audio_url # <<>>}
TargetDate(i) == DateOf(episodes[i].published_at)
FilesAt(path) == {f \in audio_files : f.path = path}

\* C30: the audio URL and file path of a daily episode are functions of its
\* user and target date: two daily episodes have the same URL, and the same
\* file path, exactly when they have the same user and the same date. The
\* path names one file, and that file is the rendering of the latest call.
C30_DailyUrlByUserAndDate ==
  \A i \in DailyRows :
    /\ episodes[i].audio_url =
         <<"audio_base_url", "daily", episodes[i].user_id, TargetDate(i)>>
    /\ episodes[i].audio_file_path =
         <<"audio_files", "daily", episodes[i].user_id, TargetDate(i)>>
    /\ Cardinality(FilesAt(episodes[i].audio_file_path)) = 1
    /\ \A f \in FilesAt(episodes[i].audio_file_path) :
         f.rendered_at >= episodes[i].published_at
    /\ \A j \in DailyRows :
         /\ (episodes[i].audio_url = episodes[j].audio_url)
              <=> (/\ episodes[i].user_id = episodes[j].user_id
                   /\ TargetDate(i) = TargetDate(j))
         /\ (episodes[i].audio_file_path = episodes[j].audio_file_path)
              <=> (episodes[i].audio_url = episodes[j].audio_url)

C30_Witness ==
  \E i \in DailyRows : \E j \in DailyRows :
    /\ i < j
    /\ episodes[i].user_id = episodes[j].user_id
    /\ episodes[i].audio_url = episodes[j].audio_url
    /\ episodes[i].audio_file_path = episodes[j].audio_file_path
    /\ episodes[i].published_at < episodes[j].published_at
    /\ \A f \in FilesAt(episodes[j].audio_file_path) :
         f.rendered_at = episodes[j].published_at

====
